---- MODULE Spec2Model ----
(***************************************************************************)
(* A model of the request-capturing reverse proxy of src/main.py: the      *)
(* session registry (analyses), the active-session pointer, the in-memory  *)
(* history and the record files, the HTTP forwarder (catch_all and its     *)
(* generate() body stream) and the WebSocket bridge (websocket_endpoint).  *)
(*                                                                         *)
(* Scheduling is asyncio's: a task runs until it awaits something that    *)
(* is not ready.  No critical section of the HTTP and configuration paths  *)
(* awaits inside state_lock, so the lock is free whenever one of their     *)
(* tasks is scheduled and `async with state_lock` never suspends: a step   *)
(* of the model is the code between two network awaits.                    *)
(***************************************************************************)
EXTENDS Integers, Sequences, FiniteSets, TLC

\* ---------------------------------------------------------------- bounds
MaxSessions == 2
MaxRequests == 2
MaxChunks == 1
MaxBodyChunks == 2
MaxFrames == 2
MaxFiles == 3
MaxStamp == 3
MaxTasks == 3

\* ------------------------------------------------------------- constants
None == "None"
NoId == 0
DefaultEndpoint == "http://default"
\* The endpoint given to the n-th create.
EndpointNames == <<"http://a", "http://b", "http://c", "http://d">>
Paths == {"favicon.ico", "request1", "request2"}
Requests == 1..MaxRequests
\* The id (a uuid4 in the source) of the record of the WebSocket bridge.
WsId == MaxRequests + 1
RecordIds == Requests \cup {WsId}
SessionIds == 1..MaxSessions

\* Python truthiness of an Optional[str]: None and "" are falsy.
Falsy(x) == x = None \/ x = ""

VARIABLES
    analyses,              \* id -> analysis metadata
    current_analysis_id,   \* NoId or the active analysis id
    redirect_endpoint,     \* None or the endpoint traffic is forwarded to
    requests_history,      \* the in-memory list of records
    disk,                  \* <<analysis dir, record id>> -> file content
    dirs,                  \* the analysis directories that exist
    metadata_file,         \* content of METADATA_FILE, <<>> while absent
    clock,                 \* datetime.now(), as a counter
    configure_reply,       \* status code of the last POST /___configure, 0 before any
    view,                  \* what the last GET /___view_last/{x} answered
    redaction,             \* a call of redact_sensitive_data: its argument and result
    url,                   \* a construction of an upstream URL: its arguments and results
    state_lock,            \* asyncio.Lock: the task inside the critical section, the waiters
    tasks,                 \* per coroutine of the event loop: its handler and position
    http,                  \* per proxied HTTP request: the task's locals
    response_sets,         \* history: record id -> number of times ["response"] was assigned
    ws                     \* the WebSocket bridge's locals

globals == <<analyses, current_analysis_id, redirect_endpoint, requests_history,
             disk, dirs, metadata_file, clock, configure_reply, view, redaction, url, state_lock, tasks>>
globals_but_redaction ==
    <<analyses, current_analysis_id, redirect_endpoint, requests_history,
      disk, dirs, metadata_file, clock, configure_reply, view, url, state_lock, tasks>>
vars == <<analyses, current_analysis_id, redirect_endpoint, requests_history,
          disk, dirs, metadata_file, clock, configure_reply, view, redaction, url, state_lock, tasks, http,
          response_sets, ws>>

\* ------------------------------------------------------------- utils.py

\* Strings are tuples of characters, so that lower(), "in" and startswith()
\* are computed.  JSON values are tagged: a string, a number, a dict (its
\* items in order, keys distinct) or a list.
Str(s) == <<"str", s>>
Num(n) == <<"num", n>>
Dict(items) == <<"dict", items>>
List(items) == <<"list", items>>

UpperCase == <<"A", "B", "C", "D", "E", "F", "G", "H", "I", "J", "K", "L", "M", "N", "O", "P", "Q", "R", "S", "T", "U", "V", "W", "X", "Y", "Z">>
LowerCase == <<"a", "b", "c", "d", "e", "f", "g", "h", "i", "j", "k", "l", "m", "n", "o", "p", "q", "r", "s", "t", "u", "v", "w", "x", "y", "z">>

\* str.lower()
lower_char(c) ==
    IF \E i \in 1..Len(UpperCase) : UpperCase[i] = c
    THEN LowerCase[CHOOSE i \in 1..Len(UpperCase) : UpperCase[i] = c]
    ELSE c
lower(s) == [i \in 1..Len(s) |-> lower_char(s[i])]

\* sub in s
contains(s, sub) ==
    \E i \in 0..(Len(s) - Len(sub)) : SubSeq(s, i + 1, i + Len(sub)) = sub

\* s.startswith(prefix)
startswith(s, prefix) ==
    Len(s) >= Len(prefix) /\ SubSeq(s, 1, Len(prefix)) = prefix

\* utils.py lines 59-63
sensitive_keys == {
    <<"a", "u", "t", "h", "o", "r", "i", "z", "a", "t", "i", "o", "n">>,
    <<"p", "r", "o", "x", "y", "-", "a", "u", "t", "h", "o", "r", "i", "z", "a", "t", "i", "o", "n">>,
    <<"c", "o", "o", "k", "i", "e">>,
    <<"s", "e", "t", "-", "c", "o", "o", "k", "i", "e">>,
    <<"a", "p", "i", "-", "k", "e", "y">>,
    <<"a", "p", "i", "k", "e", "y">>,
    <<"x", "-", "a", "p", "i", "-", "k", "e", "y">>,
    <<"a", "c", "c", "e", "s", "s", "_", "t", "o", "k", "e", "n">>,
    <<"r", "e", "f", "r", "e", "s", "h", "_", "t", "o", "k", "e", "n">>,
    <<"p", "a", "s", "s", "w", "o", "r", "d">>,
    <<"s", "e", "c", "r", "e", "t">>,
    <<"t", "o", "k", "e", "n">>,
    <<"k", "e", "y">>,
    <<"a", "u", "t", "h">>}

\* utils.py line 70, the names matched as substrings.
sensitive_substrings == {
    <<"a", "u", "t", "h", "o", "r", "i", "z", "a", "t", "i", "o", "n">>,
    <<"s", "e", "c", "r", "e", "t">>,
    <<"p", "a", "s", "s", "w", "o", "r", "d">>,
    <<"k", "e", "y">>}

\* A test of sensitivity that matches every listed name as a substring.
is_sensitive_by_substring(k) ==
    \E sk \in sensitive_keys : contains(lower(k), sk)

\* utils.py lines 68-70
is_sensitive(k) ==
    LET k_lower == lower(k)
    IN  k_lower \in sensitive_keys
        \/ \E sk \in sensitive_substrings : contains(k_lower, sk)

BearerPrefix == <<"b", "e", "a", "r", "e", "r", " ">>
BearerRedacted == <<"B", "e", "a", "r", "e", "r", " ", "[", "R", "E", "D", "A", "C", "T", "E", "D", "]">>
Redacted == <<"[", "R", "E", "D", "A", "C", "T", "E", "D", "]">>

\* utils.py lines 54-83
RECURSIVE redact_sensitive_data(_)
redact_sensitive_data(data) ==
    IF data[1] = "dict"
    THEN Dict([i \in 1..Len(data[2]) |->
                 LET k == data[2][i][1]
                     v == data[2][i][2]
                 IN  <<k, IF is_sensitive(k)
                          THEN IF v[1] = "str" /\ startswith(lower(v[2]), BearerPrefix)
                               THEN Str(BearerRedacted)
                               ELSE Str(Redacted)
                          ELSE redact_sensitive_data(v)>>])
    ELSE IF data[1] = "list"
    THEN List([i \in 1..Len(data[2]) |-> redact_sensitive_data(data[2][i])])
    ELSE data

\* The arguments redact_sensitive_data is called with: header names and
\* field names in any case, string and number values, dicts within dicts
\* and within lists.
RedactKeys == {
    <<"A", "u", "t", "h", "o", "r", "i", "z", "a", "t", "i", "o", "n">>,
    <<"X", "-", "A", "P", "I", "-", "K", "e", "y">>,
    <<"t", "o", "k", "e", "n">>,
    <<"p", "r", "o", "m", "p", "t", "_", "t", "o", "k", "e", "n", "s">>,
    <<"C", "o", "n", "t", "e", "n", "t", "-", "T", "y", "p", "e">>,
    <<"k", "e", "y", "w", "o", "r", "d">>}
RedactLeaves == {
    Str(<<"B", "e", "a", "r", "e", "r", " ", "s", "k">>),
    Str(<<"B", "E", "A", "R", "E", "R", " ", "s", "k">>),
    Str(<<"s", "k">>),
    Num(10)}
RedactNested ==
    {Dict(<< <<k, v>> >>) :
        k \in {<<"t", "o", "k", "e", "n">>, <<"p", "r", "o", "m", "p", "t", "_", "t", "o", "k", "e", "n", "s">>},
        v \in {Str(<<"s", "k">>), Num(10)}}
RedactValues ==
    RedactLeaves \cup RedactNested
        \cup {List(<<x>>) : x \in RedactNested \cup {Str(<<"s", "k">>)}}
RedactDicts ==
    {Dict(<<>>)}
        \cup {Dict(<< <<k, v>> >>) : k \in RedactKeys, v \in RedactValues}
        \cup {Dict(<< <<k[1], v1>>, <<k[2], v2>> >>) :
                 k \in {kk \in RedactKeys \X RedactKeys : kk[1] # kk[2]},
                 v1 \in RedactValues, v2 \in RedactValues}
RedactInputs ==
    RedactDicts \cup RedactValues

\* ------------------------------------------------------------ persistence

\* get_analysis_dir: one directory per analysis id.
get_analysis_dir(analysis_id) == analysis_id

\* The record files of a directory (glob "*.json").
FilesOf(dir) == {p \in DOMAIN disk : p[1] = dir}

\* os.makedirs(dir, exist_ok=True): the directory exists afterwards.
makedirs(ds, dir) == ds \cup {dir}

\* save_request, lines 150-152: the directory of the current analysis is
\* created when it is missing.
save_request_dirs ==
    IF current_analysis_id = NoId
    THEN dirs
    ELSE makedirs(dirs, get_analysis_dir(current_analysis_id))

\* A save that puts every record in the directory of the first analysis.
save_request_shared(d, request_id, data) ==
    IF current_analysis_id = NoId
    THEN d
    ELSE LET file_path == <<get_analysis_dir(1), request_id>>
         IN  [p \in DOMAIN d \cup {file_path} |->
                 IF p = file_path THEN data ELSE d[p]]

\* A save that never overwrites a file.
save_request_once(d, request_id, data) ==
    IF current_analysis_id = NoId
    THEN d
    ELSE LET file_path == <<get_analysis_dir(current_analysis_id), request_id>>
         IN  [p \in DOMAIN d \cup {file_path} |->
                 IF p \in DOMAIN d THEN d[p] ELSE data]

\* save_request: writes data under the directory of the analysis that is
\* current at the time of the write; skipped when no analysis is selected.
save_request(d, request_id, data) ==
    IF current_analysis_id = NoId
    THEN d
    ELSE LET file_path == <<get_analysis_dir(current_analysis_id), request_id>>
         IN  [p \in DOMAIN d \cup {file_path} |->
                 IF p = file_path THEN data ELSE d[p]]

\* A sort key that ignores the timestamp.
sort_key_by_id(item) == 2 * item.id + 1

\* load_history's sort key: the timestamp, or the id when it is missing.
\* Both are strings in the source and are compared as such: an id is never
\* equal to a timestamp (odd and even keys here), and falls somewhere among
\* the timestamps.
sort_key(item) == IF item.timestamp = 0 THEN 2 * item.id + 1 ELSE 2 * item.timestamp

RECURSIVE SeqsOf(_)
SeqsOf(S) ==
    IF S = {} THEN {<<>>}
    ELSE UNION {{<<x>> \o s : s \in SeqsOf(S \ {x})} : x \in S}

\* The lists load_history can build from a directory: the files in any glob
\* order, then a stable sort by sort_key.
LoadedHistories(dir) ==
    {[i \in 1..Len(s) |-> disk[s[i]]] : s \in
        {s \in SeqsOf(FilesOf(dir)) :
            \A i \in 1..(Len(s) - 1) : sort_key(disk[s[i]]) <= sort_key(disk[s[i + 1]])}}

\* ------------------------------------------------------------------ Init

NoRecord == <<>>

\* No call of redact_sensitive_data yet.
NoRedaction == [data |-> Num(0), redacted |-> <<>>]

\* Nothing viewed yet.
NoView == [status_code |-> 0, index |-> 0, request_data |-> NoRecord]

\* No URL built yet.
NoUrl == [endpoint |-> <<>>, path |-> <<>>, query |-> <<>>, target_url |-> <<>>, ws_url |-> <<>>]

\* state_lock = asyncio.Lock() (line 36): unlocked, nobody waiting.  owner is
\* the task inside the critical section, 0 when the lock is free.
Unlocked == [owner |-> 0, waiters |-> <<>>]

\* No coroutine is modelled at the level of the event loop.
NoTasks == <<>>

HttpIdle ==
    [pc |-> "start", path |-> "", local_redirect_endpoint |-> None,
     request_data |-> NoRecord, request_data_index |-> 0,
     target_url |-> <<>>, upstream |-> <<>>,
     response_chunks |-> <<>>, delivered |-> <<>>, stream_end |-> "",
     reply |-> 0, client |-> "none", released |-> FALSE,
     entry_session |-> NoId, entry_endpoint |-> None]

WsIdle ==
    [pc |-> "start", path |-> "", local_redirect_endpoint |-> None, ws_url |-> <<>>,
     ws_data |-> NoRecord, loop_to_upstream |-> "idle", loop_from_upstream |-> "idle",
     client |-> "connecting", upstream |-> "none", echo |-> FALSE,
     from_client |-> <<>>, from_upstream |-> <<>>,
     to_upstream |-> <<>>, to_client |-> <<>>,
     close_code |-> 0, history_appends |-> 0, disk_writes |-> 0,
     entry_session |-> NoId]

\* Module load (lines 31-36, 179): nothing is configured except the endpoint
\* the environment may give (DEFAULT_REDIRECT_ENDPOINT).
Init ==
    /\ analyses = <<>>
    /\ current_analysis_id = NoId
    /\ redirect_endpoint \in {None, DefaultEndpoint}
    /\ requests_history = <<>>
    /\ disk = <<>>
    /\ dirs = {}
    /\ metadata_file = <<>>
    /\ clock = 1
    /\ configure_reply = 0
    /\ view = NoView
    /\ redaction = NoRedaction
    /\ url = NoUrl
    /\ state_lock = Unlocked
    /\ tasks = NoTasks
    /\ http = [t \in Requests |-> HttpIdle]
    /\ response_sets = [r \in RecordIds |-> 0]
    /\ ws = WsIdle

\* ------------------------------------------------- configuration surface

\* load_history (lines 102-143): nothing without an analysis; a missing
\* directory is created and the list is left as it is (lines 111-113); else
\* the in-memory list is replaced by the sorted content of the directory.
load_history(analysis_id, history) ==
    IF analysis_id = NoId
    THEN {history}
    ELSE IF get_analysis_dir(analysis_id) \notin dirs
    THEN {history}
    ELSE LoadedHistories(get_analysis_dir(analysis_id))

\* The directories after load_history.
load_history_dirs(analysis_id) ==
    IF analysis_id = NoId THEN dirs ELSE makedirs(dirs, get_analysis_dir(analysis_id))

\* str.strip() on the form values the model uses.
Stripped == [x \in {" ", " T ", "T", ""} |->
                IF x = " " THEN "" ELSE IF x = " T " THEN "T" ELSE x]
strip(x) == IF x \in DOMAIN Stripped THEN Stripped[x] ELSE x

\* A new analysis that always takes the first id.
NewAnalysisFirstId(title, endpoint, redact_sensitive) ==
    [id |-> 1, title |-> title, endpoint |-> endpoint,
     redact_sensitive |-> redact_sensitive, created_at |-> clock]

\* create_analysis, lines 75-82: the new analysis, under a fresh id.
NewAnalysis(title, endpoint, redact_sensitive) ==
    [id |-> Cardinality(DOMAIN analyses) + 1, title |-> title, endpoint |-> endpoint,
     redact_sensitive |-> redact_sensitive, created_at |-> clock]

\* A create that registers the analysis without making it the current one.
CreateKeepsCurrent(title, endpoint, redact_sensitive) ==
    /\ Cardinality(DOMAIN analyses) < MaxSessions
    /\ LET analysis == NewAnalysis(title, endpoint, redact_sensitive)
       IN  /\ analyses' = [i \in DOMAIN analyses \cup {analysis.id} |->
                              IF i = analysis.id THEN analysis ELSE analyses[i]]
           /\ dirs' = makedirs(dirs, get_analysis_dir(analysis.id))
           /\ metadata_file' = <<[analyses |-> analyses',
                                  current_analysis_id |-> current_analysis_id]>>
    /\ configure_reply' = 200
    /\ UNCHANGED <<current_analysis_id, redirect_endpoint, requests_history,
                   disk, clock, view, redaction, url, state_lock, tasks, http, response_sets, ws>>

\* configure_post, action "create" after validation (lines 222-234):
\* create_analysis registers the analysis, creates its directory and writes
\* the registry file (lines 83-91); the new analysis becomes the current one
\* (lines 224-226) and its history is loaded (229).
CreateAnalysis(title, endpoint, redact_sensitive) ==
    /\ Cardinality(DOMAIN analyses) < MaxSessions
    /\ LET analysis == NewAnalysis(title, endpoint, redact_sensitive)
       IN  /\ analyses' = [i \in DOMAIN analyses \cup {analysis.id} |->
                              IF i = analysis.id THEN analysis ELSE analyses[i]]
           /\ dirs' = makedirs(dirs, get_analysis_dir(analysis.id))
           /\ metadata_file' = <<[analyses |-> analyses',
                                  current_analysis_id |-> current_analysis_id]>>
           /\ current_analysis_id' = analysis.id
           /\ redirect_endpoint' = analysis.endpoint
           /\ requests_history' \in LoadedHistories(get_analysis_dir(analysis.id))
    /\ configure_reply' = 200
    /\ UNCHANGED <<disk, clock, view, redaction, url, state_lock, tasks, http, response_sets, ws>>

\* A switch that deselects the current analysis when the id is unknown.
SwitchOrDeselect(analysis_id) ==
    /\ IF analysis_id \in DOMAIN analyses
       THEN /\ current_analysis_id' = analyses[analysis_id].id
            /\ redirect_endpoint' = analyses[analysis_id].endpoint
            /\ requests_history' \in load_history(analysis_id, requests_history)
            /\ dirs' = load_history_dirs(analysis_id)
            /\ configure_reply' = 200
       ELSE /\ configure_reply' = 404
            /\ current_analysis_id' = NoId
            /\ redirect_endpoint' = None
            /\ requests_history' = <<>>
            /\ UNCHANGED dirs
    /\ UNCHANGED <<analyses, disk, metadata_file, clock, view, redaction, url, state_lock, tasks, http, response_sets, ws>>

\* configure_post, action "switch" with an id (lines 244-261): 404 for an
\* unknown id, else the named analysis becomes the current one and its
\* history is loaded.
SwitchAnalysis(analysis_id) ==
    /\ IF analysis_id \in DOMAIN analyses
       THEN /\ current_analysis_id' = analyses[analysis_id].id
            /\ redirect_endpoint' = analyses[analysis_id].endpoint
            /\ requests_history' \in load_history(analysis_id, requests_history)
            /\ dirs' = load_history_dirs(analysis_id)
            /\ configure_reply' = 200
       ELSE /\ configure_reply' = 404
            /\ UNCHANGED <<current_analysis_id, redirect_endpoint, requests_history, dirs>>
    /\ UNCHANGED <<analyses, disk, metadata_file, clock, view, redaction, url, state_lock, tasks, http, response_sets, ws>>

\* The 400 answers of configure_post (lines 217-221, 238-242, 263-267).
InvalidInput ==
    /\ configure_reply' = 400
    /\ UNCHANGED <<analyses, current_analysis_id, redirect_endpoint, requests_history,
                   disk, dirs, metadata_file, clock, view, redaction, url, state_lock, tasks, http, response_sets, ws>>

\* configure_post (lines 203-267): the whole handler.  A missing form value
\* is None (NoId for analysis_id).
configure_post(action, title, endpoint, redact_sensitive, analysis_id) ==
    IF action = "create"
    THEN IF Falsy(title) \/ Falsy(endpoint)
         THEN InvalidInput
         ELSE CreateAnalysis(strip(title), strip(endpoint), redact_sensitive)
    ELSE IF action = "switch"
    THEN IF analysis_id = NoId
         THEN InvalidInput
         ELSE SwitchAnalysis(analysis_id)
    ELSE InvalidInput

\* The endpoints a create is called with: one per analysis, all different.
NewEndpoints == {EndpointNames[Cardinality(DOMAIN analyses) + 1]}

\* Well-formed configuration requests, redaction left off (the form's default).
Configure ==
    \/ \E endpoint \in NewEndpoints :
          configure_post("create", "T", endpoint, FALSE, NoId)
    \/ \E analysis_id \in SessionIds :
          configure_post("switch", None, None, FALSE, analysis_id)

\* Well-formed configuration requests, with and without redaction.
ConfigureRedact ==
    \/ \E endpoint \in NewEndpoints, redact_sensitive \in BOOLEAN :
          configure_post("create", "T", endpoint, redact_sensitive, NoId)
    \/ \E analysis_id \in SessionIds :
          configure_post("switch", None, None, FALSE, analysis_id)

\* Any configuration request: form values missing, empty, blank or padded.
Actions == {"create", "switch", "delete"}
Titles == {None, "", " ", " T ", "T"}
Endpoints == {None, "", " "} \cup NewEndpoints
ConfigureAny ==
    \E action \in Actions, title \in Titles, endpoint \in Endpoints,
       redact_sensitive \in BOOLEAN, analysis_id \in SessionIds \cup {NoId} :
        configure_post(action, title, endpoint, redact_sensitive, analysis_id)

\* A viewer that counts from the end of the history.
ViewLastFromEnd(x) ==
    /\ view' = IF requests_history = <<>> \/ x < 1 \/ x > Len(requests_history)
               THEN [status_code |-> 404, index |-> x, request_data |-> NoRecord]
               ELSE [status_code |-> 200, index |-> x,
                     request_data |-> <<requests_history[Len(requests_history) - x + 1]>>]
    /\ UNCHANGED <<analyses, current_analysis_id, redirect_endpoint, requests_history,
                   disk, dirs, metadata_file, clock, configure_reply, redaction, url, state_lock, tasks, http,
                   response_sets, ws>>

\* view_last (lines 270-301): under the lock, 404 when the history is empty
\* or x is out of 1..len; else a copy of the record at index x - 1 (0-based)
\* is rendered.
ViewLast(x) ==
    /\ view' = IF requests_history = <<>>
               THEN [status_code |-> 404, index |-> x, request_data |-> NoRecord]
               ELSE IF x < 1 \/ x > Len(requests_history)
               THEN [status_code |-> 404, index |-> x, request_data |-> NoRecord]
               ELSE [status_code |-> 200, index |-> x,
                     request_data |-> <<requests_history[x]>>]
    /\ UNCHANGED <<analyses, current_analysis_id, redirect_endpoint, requests_history,
                   disk, dirs, metadata_file, clock, configure_reply, redaction, url, state_lock, tasks, http,
                   response_sets, ws>>

\* The indexes the viewer is asked for: around and within the history.
ViewIndexes == 0..(MaxFiles + 1)

\* load_analyses_metadata (lines 38-59) on a fresh process: the registry
\* file's analyses, its current_analysis_id, and that analysis's endpoint
\* when it is in the registry; env is DEFAULT_REDIRECT_ENDPOINT.
load_analyses_metadata(file, env) ==
    IF file = <<>>
    THEN [analyses |-> <<>>, current_analysis_id |-> NoId, redirect_endpoint |-> env]
    ELSE [analyses |-> file[1].analyses,
          current_analysis_id |-> file[1].current_analysis_id,
          redirect_endpoint |->
              IF file[1].current_analysis_id \in DOMAIN file[1].analyses
              THEN file[1].analyses[file[1].current_analysis_id].endpoint
              ELSE env]

\* lifespan (lines 163-170) of a new process over the same files: the module
\* state is initial, then the registry file and the history are loaded.
Restart(env) ==
    LET loaded == load_analyses_metadata(metadata_file, env)
    IN  /\ analyses' = loaded.analyses
        /\ current_analysis_id' = loaded.current_analysis_id
        /\ redirect_endpoint' = loaded.redirect_endpoint
        /\ requests_history' \in load_history(loaded.current_analysis_id, <<>>)
        /\ dirs' = load_history_dirs(loaded.current_analysis_id)
        /\ configure_reply' = 0
        /\ view' = NoView
        /\ UNCHANGED <<redaction, url, state_lock, tasks>>
        /\ http' = [t \in Requests |-> HttpIdle]
        /\ ws' = WsIdle
        /\ UNCHANGED <<disk, metadata_file, clock, response_sets>>

\* ---------------------------------------------------------- HTTP forwarder

\* What an upstream may answer: the declared content-encoding, whether the
\* payload is corrupt for that encoding, whether the chunks aiter_bytes
\* yields are already decoded by the HTTP client (as httpx does for the
\* encodings it supports), whether the plain body is UTF-8 and is JSON.
UpstreamResponses ==
    {u \in [status_code : {200}, content_encoding : {"", "gzip"},
            corrupt : BOOLEAN, decoded : BOOLEAN, valid_utf8 : BOOLEAN,
            is_json : BOOLEAN] :
        /\ u.corrupt => u.content_encoding # ""
        /\ u.decoded => u.content_encoding # "" /\ ~u.corrupt
        /\ u.is_json => u.valid_utf8}

\* The bytes read from the upstream: the chunks, with the encoding they are
\* still compressed in.
Wire(u, chunks) ==
    [encoding |-> IF u.decoded THEN "" ELSE u.content_encoding,
     corrupt |-> u.corrupt, data |-> chunks]

\* decompress_body (utils.py 16-32): the empty body and the unknown encoding
\* pass through; a payload that fails to decompress is returned as received.
decompress_body(body, encoding) ==
    IF body.data = <<>> THEN body
    ELSE IF encoding \in {"gzip", "br", "deflate"}
         THEN IF body.encoding = encoding /\ ~body.corrupt
              THEN [encoding |-> "", corrupt |-> FALSE, data |-> body.data]
              ELSE body
         ELSE body

\* line 614
needs_decompression(u) == u.content_encoding \in {"gzip", "br", "deflate"}

\* json.loads(body.decode("utf-8")) succeeds on a plain JSON body only.
JsonLoads(u, body) ==
    IF body.encoding = "" /\ u.valid_utf8 /\ u.is_json THEN <<body.data>> ELSE <<>>

\* bytes.decode("utf-8", errors="replace") (line 660): the text of the
\* bytes, invalid sequences replaced.
decode_replace(u, body) ==
    [encoding |-> body.encoding, corrupt |-> body.corrupt, data |-> body.data,
     replaced |-> ~(body.encoding = "" /\ u.valid_utf8)]

\* The headers and the JSON payload of the requests, and the headers of the
\* upstream's answers.
RequestHeaders ==
    Dict(<< <<<<"a", "u", "t", "h", "o", "r", "i", "z", "a", "t", "i", "o", "n">>, Str(<<"B", "e", "a", "r", "e", "r", " ", "s", "k">>)>>,
            <<<<"x", "-", "a", "p", "i", "-", "k", "e", "y">>, Str(<<"k", "1">>)>> >>)
JsonPayload ==
    Dict(<< <<<<"p", "a", "s", "s", "w", "o", "r", "d">>, Str(<<"p", "w">>)>>,
            <<<<"p", "r", "o", "m", "p", "t", "_", "t", "o", "k", "e", "n", "s">>, Num(50)>> >>)
ResponseHeaders ==
    Dict(<< <<<<"s", "e", "t", "-", "c", "o", "o", "k", "i", "e">>, Str(<<"s", "i", "d">>)>>,
            <<<<"c", "o", "n", "t", "e", "n", "t", "-", "t", "y", "p", "e">>, Str(<<"j", "s", "o", "n">>)>> >>)

\* The request bodies: none, JSON, text that is not JSON, and bytes that
\* are not UTF-8.
RequestBodies ==
    {[kind |-> "empty", json |-> <<>>], [kind |-> "json", json |-> <<JsonPayload>>],
     [kind |-> "text", json |-> <<>>], [kind |-> "invalid_utf8", json |-> <<>>]}
JsonBodies == {body \in RequestBodies : body.kind = "json"}

\* body.decode("utf-8") raises UnicodeDecodeError on bytes that are not UTF-8.
Utf8Decodes(body) == body.kind # "invalid_utf8"

\* A flag that is always read from the first analysis.
should_redact_first ==
    /\ current_analysis_id # NoId
    /\ 1 \in DOMAIN analyses
    /\ analyses[1].redact_sensitive

\* lines 574-575 and 650-651: the redaction flag of the analysis that is
\* current now.
should_redact ==
    /\ current_analysis_id # NoId
    /\ current_analysis_id \in DOMAIN analyses
    /\ analyses[current_analysis_id].redact_sensitive

\* lines 554-563: the record of a request, before its response.
RequestData(t, path, body) ==
    [id |-> t, timestamp |-> clock, type |-> "http", path |-> path,
     headers |-> <<RequestHeaders>>,
     body |-> IF body.kind = "empty" THEN <<>> ELSE <<body>>,
     body_json |-> IF body.kind = "empty" THEN <<>> ELSE body.json,
     url |-> <<>>, response |-> <<>>, messages |-> <<>>, error |-> <<>>]

\* lines 537-546: favicon is answered at once; without a redirect endpoint
\* the request is refused; else the endpoint is copied to a local and the
\* handler awaits the request body.
ResolveEndpointFirst(t, path) ==
    /\ http[t].pc = "start"
    /\ IF Falsy(redirect_endpoint)
       THEN http' = [http EXCEPT ![t].pc = "done", ![t].path = path, ![t].reply = 400,
                                 ![t].entry_session = current_analysis_id]
       ELSE IF path = "favicon.ico"
       THEN http' = [http EXCEPT ![t].pc = "done", ![t].path = path, ![t].reply = 200]
       ELSE http' = [http EXCEPT ![t].pc = "body", ![t].path = path,
                                 ![t].local_redirect_endpoint = redirect_endpoint,
                                 ![t].entry_session = current_analysis_id,
                                 ![t].entry_endpoint = redirect_endpoint]
    /\ UNCHANGED <<globals, response_sets, ws>>

Resolve(t, path) ==
    /\ http[t].pc = "start"
    /\ IF path = "favicon.ico"
       THEN http' = [http EXCEPT ![t].pc = "done", ![t].path = path, ![t].reply = 200]
       ELSE IF Falsy(redirect_endpoint)
       THEN http' = [http EXCEPT ![t].pc = "done", ![t].path = path, ![t].reply = 400,
                                 ![t].entry_session = current_analysis_id]
       ELSE http' = [http EXCEPT ![t].pc = "body", ![t].path = path,
                                 ![t].local_redirect_endpoint = redirect_endpoint,
                                 ![t].entry_session = current_analysis_id,
                                 ![t].entry_endpoint = redirect_endpoint]
    /\ UNCHANGED <<globals, response_sets, ws>>

\* lines 549-581: the body has been read; the record is built (fresh id,
\* timestamp of now), appended to the history under the lock, its index
\* remembered, and the record saved (await save_request); the handler then
\* awaits the upstream.  The headers are redacted first when the current
\* analysis asks for it (lines 573-576).  Line 562 decodes the body outside
\* any try: bytes that are not UTF-8 raise, and the request is answered 500.
RecordRequest(t, body) ==
    /\ http[t].pc = "body"
    /\ IF body.kind # "empty" /\ ~Utf8Decodes(body)
       THEN /\ http' = [http EXCEPT ![t].pc = "done", ![t].reply = 500]
            /\ UNCHANGED <<requests_history, disk, dirs, clock>>
       ELSE LET request_data ==
                    [RequestData(t, http[t].path, body) EXCEPT
                        !.headers = IF should_redact
                                    THEN <<redact_sensitive_data(RequestHeaders)>>
                                    ELSE @]
            IN  /\ requests_history' = Append(requests_history, request_data)
                /\ disk' = save_request(disk, request_data.id, request_data)
                /\ dirs' = save_request_dirs
                /\ http' = [http EXCEPT ![t].pc = "forward",
                                        ![t].request_data = <<request_data>>,
                                        ![t].request_data_index = Len(requests_history')]
                /\ clock' = clock + 1
    /\ UNCHANGED <<analyses, current_analysis_id, redirect_endpoint, metadata_file,
                   configure_reply, view, redaction, url, state_lock, tasks, response_sets, ws>>

\* lines 584-586: the target URL is built from the local copy of the endpoint.
TargetUrlFromGlobal(t) == <<redirect_endpoint, http[t].path>>
TargetUrl(t) == <<http[t].local_redirect_endpoint, http[t].path>>

\* lines 588-614 and 685-690: the upstream request is issued and its headers
\* arrive; the StreamingResponse is returned with the upstream's status.
ConnectOk(t, u) ==
    /\ http[t].pc = "forward"
    /\ http' = [http EXCEPT ![t].pc = "stream", ![t].target_url = TargetUrl(t),
                            ![t].client = "open",
                            ![t].upstream = <<u>>, ![t].reply = u.status_code]
    /\ UNCHANGED <<globals, response_sets, ws>>

\* A failure path that would record the failure as the record's response.
ConnectFailRecordsError(t) ==
    /\ http[t].pc = "forward"
    /\ http' = [http EXCEPT ![t].pc = "done", ![t].target_url = TargetUrl(t),
                            ![t].client = "open", ![t].reply = 502]
    /\ requests_history' =
           [i \in 1..Len(requests_history) |->
               IF requests_history[i].id = t
               THEN [requests_history[i] EXCEPT
                        !.response = <<[status_code |-> 502, headers |-> Dict(<<>>),
                                        body |-> <<>>, body_json |-> <<>>]>>]
               ELSE requests_history[i]]
    /\ UNCHANGED <<analyses, current_analysis_id, redirect_endpoint, disk,
                   dirs, metadata_file, configure_reply, view, redaction, url, state_lock, tasks, clock, response_sets, ws>>

\* lines 691-695: the upstream attempt fails before headers (the connection
\* is refused, or made and then silent until the timeout): 502.  The client
\* created at line 589 is not closed on this path.
ConnectFail(t) ==
    /\ http[t].pc = "forward"
    /\ http' = [http EXCEPT ![t].pc = "done", ![t].target_url = TargetUrl(t),
                            ![t].client = "open", ![t].reply = 502]
    /\ UNCHANGED <<globals, response_sets, ws>>

\* lines 643-647
response_body_final(t) ==
    LET u == http[t].upstream[1]
        joined == Wire(u, http[t].response_chunks)
    IN  IF needs_decompression(u) THEN decompress_body(joined, u.content_encoding)
        ELSE joined

\* lines 657-661, and 669-671 for a body that parses as JSON.
RespData(t) ==
    [status_code |-> http[t].upstream[1].status_code,
     headers |-> IF should_redact THEN redact_sensitive_data(ResponseHeaders)
                 ELSE ResponseHeaders,
     body |-> IF response_body_final(t).data = <<>> THEN <<>>
              ELSE <<decode_replace(http[t].upstream[1], response_body_final(t))>>,
     body_json |-> <<>>]

\* The index generate() uses for its record (line 579): 0-based in the
\* source, 1-based here.
HistoryIndex(t) == http[t].request_data_index

\* lines 649-674, the capture of the finally block: under the lock the
\* response is stored in the record at request_data_index of the list as it
\* is now, and that record is saved; a body that parses as JSON is then
\* stored in that response and the record saved again.  An index out of range
\* (and a record without a response at line 671) raises, which line 675
\* catches.  The history, the files and response_sets after it:
CaptureResponse(t) ==
    LET i == HistoryIndex(t)
        body_json == JsonLoads(http[t].upstream[1], response_body_final(t))
    IN  IF i \in 1..Len(requests_history)
        THEN /\ requests_history' =
                    [requests_history EXCEPT
                        ![i].response = <<[RespData(t) EXCEPT !.body_json = body_json]>>]
             /\ disk' = save_request(disk, requests_history[i].id, requests_history'[i])
             /\ dirs' = save_request_dirs
             /\ response_sets' = [response_sets EXCEPT ![requests_history[i].id] = @ + 1]
        ELSE UNCHANGED <<requests_history, disk, dirs, response_sets>>

\* lines 636-638: one chunk of a body that needs no decompression arrives; it
\* is accumulated and yielded at once.
RelayChunk(t, max_chunks) ==
    /\ http[t].pc = "stream"
    /\ ~needs_decompression(http[t].upstream[1])
    /\ Len(http[t].response_chunks) < max_chunks
    /\ LET chunk == Len(http[t].response_chunks) + 1
       IN  http' = [http EXCEPT
                ![t].response_chunks = Append(@, chunk),
                ![t].delivered = Append(@, Wire(http[t].upstream[1], <<chunk>>))]
    /\ UNCHANGED <<globals, response_sets, ws>>

\* lines 624-625: one chunk of a compressed body arrives; it is accumulated.
CollectChunk(t, max_chunks) ==
    /\ http[t].pc = "stream"
    /\ needs_decompression(http[t].upstream[1])
    /\ Len(http[t].response_chunks) < max_chunks
    /\ http' = [http EXCEPT ![t].response_chunks =
                                Append(@, Len(http[t].response_chunks) + 1)]
    /\ UNCHANGED <<globals, response_sets, ws>>

\* The stream of a body that needs no decompression ends: the loop of line
\* 636 is left and the finally block captures the response, then awaits the
\* release of the upstream connection.
StreamEnd(t) ==
    /\ http[t].pc = "stream"
    /\ ~needs_decompression(http[t].upstream[1])
    /\ CaptureResponse(t)
    /\ http' = [http EXCEPT ![t].pc = "cleanup", ![t].stream_end = "ok"]
    /\ UNCHANGED <<analyses, current_analysis_id, redirect_endpoint, metadata_file,
                   configure_reply, view, redaction, url, state_lock, tasks, clock, ws>>

\* A generator that yields the body of a compressed answer as it was read.
YieldAsReceived(t) ==
    /\ http[t].pc = "stream"
    /\ needs_decompression(http[t].upstream[1])
    /\ http' = [http EXCEPT ![t].pc = "yielded",
                            ![t].delivered =
                                Append(@, Wire(http[t].upstream[1], http[t].response_chunks))]
    /\ UNCHANGED <<globals, response_sets, ws>>

\* lines 628-632: the stream of a compressed body ends; the body is
\* decompressed and yielded as one chunk.
YieldDecompressed(t) ==
    /\ http[t].pc = "stream"
    /\ needs_decompression(http[t].upstream[1])
    /\ LET u == http[t].upstream[1]
           response_body == decompress_body(Wire(u, http[t].response_chunks),
                                            u.content_encoding)
       IN  http' = [http EXCEPT ![t].pc = "yielded",
                                ![t].delivered = Append(@, response_body)]
    /\ UNCHANGED <<globals, response_sets, ws>>

\* The generator is resumed (or closed) after the yield of line 632: the
\* finally block captures the response.
AfterYield(t, how) ==
    /\ http[t].pc = "yielded"
    /\ CaptureResponse(t)
    /\ http' = [http EXCEPT ![t].pc = "cleanup", ![t].stream_end = how]
    /\ UNCHANGED <<analyses, current_analysis_id, redirect_endpoint, metadata_file,
                   configure_reply, view, redaction, url, state_lock, tasks, clock, ws>>

\* The upstream fails mid-stream, or the caller goes away: the exception is
\* raised in generate(), whose finally block (line 640) captures the response.
StreamAbort(t, how) ==
    /\ http[t].pc = "stream"
    /\ CaptureResponse(t)
    /\ http' = [http EXCEPT ![t].pc = "cleanup", ![t].stream_end = how]
    /\ UNCHANGED <<analyses, current_analysis_id, redirect_endpoint, metadata_file,
                   configure_reply, view, redaction, url, state_lock, tasks, clock, ws>>

\* lines 678-681: the stream context is exited and the client closed.
Cleanup(t) ==
    /\ http[t].pc = "cleanup"
    /\ http' = [http EXCEPT ![t].pc = "done", ![t].client = "closed",
                            ![t].released = TRUE]
    /\ UNCHANGED <<globals, response_sets, ws>>

\* The upstream answers of the runs with configuration changes: a plain
\* JSON body.
PlainJsonResponses ==
    {u \in UpstreamResponses : u.content_encoding = "" /\ u.is_json}

\* catch_all up to the StreamingResponse, for upstream answers U.
CatchAll(t, B, U) ==
    \/ \E path \in Paths : Resolve(t, path)
    \/ \E body \in B : RecordRequest(t, body)
    \/ \E u \in U : ConnectOk(t, u)
    \/ ConnectFail(t)

\* line 637, on its own: one chunk of a body that needs no decompression is
\* read from the upstream and accumulated; generate() is about to yield it.
ReadChunk(t, max_chunks) ==
    /\ http[t].pc = "stream"
    /\ ~needs_decompression(http[t].upstream[1])
    /\ Len(http[t].response_chunks) < max_chunks
    /\ http' = [http EXCEPT ![t].pc = "yield",
                            ![t].response_chunks =
                                Append(@, Len(http[t].response_chunks) + 1)]
    /\ UNCHANGED <<globals, response_sets, ws>>

\* line 638, on its own: the chunk is yielded and sent to the caller; the
\* generator is resumed for the next chunk.
YieldChunk(t) ==
    /\ http[t].pc = "yield"
    /\ LET chunk == http[t].response_chunks[Len(http[t].response_chunks)]
       IN  http' = [http EXCEPT
                ![t].pc = "stream",
                ![t].delivered = Append(@, Wire(http[t].upstream[1], <<chunk>>))]
    /\ UNCHANGED <<globals, response_sets, ws>>

\* The caller has gone when the chunk is yielded: the generator is closed at
\* line 638 and its finally block captures the response.
YieldAbort(t) ==
    /\ http[t].pc = "yield"
    /\ CaptureResponse(t)
    /\ http' = [http EXCEPT ![t].pc = "cleanup", ![t].stream_end = "disconnect"]
    /\ UNCHANGED <<analyses, current_analysis_id, redirect_endpoint, metadata_file,
                   configure_reply, view, redaction, url, state_lock, tasks, clock, ws>>

\* generate() for a body that needs no decompression, the read of a chunk
\* and its delivery taken as one step.
GeneratePlain(t) ==
    \/ RelayChunk(t, MaxChunks)
    \/ StreamEnd(t)
    \/ \E how \in {"error", "disconnect"} : StreamAbort(t, how)
    \/ Cleanup(t)

\* generate() for a body that needs no decompression, the read of a chunk
\* and its delivery as the two steps they are.
GenerateLive(t) ==
    \/ ReadChunk(t, MaxBodyChunks)
    \/ YieldChunk(t)
    \/ YieldAbort(t)
    \/ StreamEnd(t)
    \/ \E how \in {"error", "disconnect"} : StreamAbort(t, how)
    \/ Cleanup(t)

\* generate(), the steps only a compressed body takes.
GenerateEncoded(t) ==
    \/ CollectChunk(t, MaxBodyChunks)
    \/ YieldDecompressed(t)
    \/ \E how \in {"ok", "disconnect"} : AfterYield(t, how)

\* ------------------------------------------------------- filesystem failures

\* The filesystem calls that can fail: os.makedirs raises, or open/json.dump
\* raises.
Faults == {"makedirs", "write"}

\* create_analysis when os.makedirs raises (line 88): the analysis is already
\* in the registry (line 84); the exception leaves configure_post, which
\* answers 500 without saving the registry or selecting the analysis.
CreateAnalysisFailing(title, endpoint, redact_sensitive) ==
    /\ Cardinality(DOMAIN analyses) < MaxSessions
    /\ LET analysis == NewAnalysis(title, endpoint, redact_sensitive)
       IN  analyses' = [i \in DOMAIN analyses \cup {analysis.id} |->
                           IF i = analysis.id THEN analysis ELSE analyses[i]]
    /\ configure_reply' = 500
    /\ UNCHANGED <<current_analysis_id, redirect_endpoint, requests_history, disk, dirs,
                   metadata_file, clock, view, redaction, url, state_lock, tasks, http, response_sets, ws>>

\* configure_post, action "switch", when the analysis has no directory and
\* os.makedirs raises in load_history (line 112): the analysis is already the
\* current one (lines 251-252); 500.
SwitchAnalysisFailing(analysis_id) ==
    /\ analysis_id \in DOMAIN analyses
    /\ get_analysis_dir(analysis_id) \notin dirs
    /\ current_analysis_id' = analyses[analysis_id].id
    /\ redirect_endpoint' = analyses[analysis_id].endpoint
    /\ configure_reply' = 500
    /\ UNCHANGED <<analyses, requests_history, disk, dirs, metadata_file, clock, view, redaction, url, state_lock, tasks,
                   http, response_sets, ws>>

\* lines 549-581 when the save of line 581 fails.  The record is in the
\* history already.  A failed write is caught in save_request (lines 155-161)
\* and the handler goes on; os.makedirs (line 152) is outside that try: its
\* exception leaves save_request and catch_all, and the request is answered
\* 500 before the upstream is tried.
RecordRequestFailing(t, body, fault) ==
    /\ http[t].pc = "body"
    /\ body.kind = "empty" \/ Utf8Decodes(body)
    /\ current_analysis_id # NoId
    /\ fault = "makedirs" => get_analysis_dir(current_analysis_id) \notin dirs
    /\ LET request_data ==
               [RequestData(t, http[t].path, body) EXCEPT
                   !.headers = IF should_redact
                               THEN <<redact_sensitive_data(RequestHeaders)>>
                               ELSE @]
       IN  /\ requests_history' = Append(requests_history, request_data)
           /\ http' = IF fault = "write"
                      THEN [http EXCEPT ![t].pc = "forward",
                                        ![t].request_data = <<request_data>>,
                                        ![t].request_data_index = Len(requests_history')]
                      ELSE [http EXCEPT ![t].pc = "done", ![t].reply = 500,
                                        ![t].request_data = <<request_data>>,
                                        ![t].request_data_index = Len(requests_history')]
    /\ dirs' = IF fault = "write" THEN save_request_dirs ELSE dirs
    /\ clock' = clock + 1
    /\ UNCHANGED <<analyses, current_analysis_id, redirect_endpoint, disk, metadata_file,
                   configure_reply, view, redaction, url, state_lock, tasks, response_sets, ws>>

\* lines 649-676 when the saves of the capture fail.  The response is in the
\* history already (line 662).  A failed write is caught in save_request and
\* the parsed body is still stored (line 671); an exception of os.makedirs
\* leaves the try at line 663 and is caught at line 675, before the parsed
\* body is stored.  Nothing reaches the files.
CaptureResponseFailing(t, fault) ==
    LET i == HistoryIndex(t)
        body_json == JsonLoads(http[t].upstream[1], response_body_final(t))
    IN  /\ i \in 1..Len(requests_history)
        /\ current_analysis_id # NoId
        /\ fault = "makedirs" => get_analysis_dir(current_analysis_id) \notin dirs
        /\ requests_history' =
               [requests_history EXCEPT
                   ![i].response =
                       <<[RespData(t) EXCEPT
                             !.body_json = IF fault = "write" THEN body_json ELSE @]>>]
        /\ dirs' = IF fault = "write" THEN save_request_dirs ELSE dirs
        /\ response_sets' = [response_sets EXCEPT ![requests_history[i].id] = @ + 1]
        /\ UNCHANGED disk

\* The stream ends and the capture's saves fail.
StreamEndFailing(t, fault) ==
    /\ http[t].pc = "stream"
    /\ ~needs_decompression(http[t].upstream[1])
    /\ CaptureResponseFailing(t, fault)
    /\ http' = [http EXCEPT ![t].pc = "cleanup", ![t].stream_end = "ok"]
    /\ UNCHANGED <<analyses, current_analysis_id, redirect_endpoint, metadata_file,
                   configure_reply, view, redaction, url, state_lock, tasks, clock, ws>>

\* The configuration requests over a filesystem that can fail.
ConfigureFailing ==
    \/ \E endpoint \in NewEndpoints : CreateAnalysisFailing("T", endpoint, FALSE)
    \/ \E analysis_id \in SessionIds : SwitchAnalysisFailing(analysis_id)

\* ---------------------------------------------------------- WebSocket bridge

FrameTypes == {"text", "bytes"}
WsPaths == {"ws"}

\* The n-th frame a peer sends: a text frame carries a str, a binary frame
\* bytes.
Frame(type, n) ==
    [type |-> type, data |-> IF type = "bytes" THEN <<"bytes", n>> ELSE <<"str", n>>]

\* lines 470 and 490: a text frame is recorded as it is, a binary frame as
\* bytes.decode("utf-8", errors="replace"), a str.
Decode(frame) == <<"str", frame.data[2]>>

\* lines 461-466, 472-477, 492-497: the message record of a frame (its
\* timestamp left out).
MessageAllFromClient(direction, frame) ==
    [direction |-> "client->server", content |-> Decode(frame),
     type |-> IF frame.type = "bytes" THEN "binary" ELSE "text"]
Message(direction, frame) ==
    [direction |-> direction, content |-> Decode(frame),
     type |-> IF frame.type = "bytes" THEN "binary" ELSE "text"]

\* ws_data["messages"].append(...)
PrependMessage(messages, m) == <<m>> \o messages
AppendMessage(messages, m) == Append(messages, m)

\* lines 420-428
WsUrl(endpoint, path) == <<"ws", endpoint, path>>

\* lines 408-414: without a redirect endpoint the connection is closed with
\* 1008 (under the lock); else the endpoint is copied to a local and the
\* handler awaits the accept.
WsResolve(path) ==
    /\ ws.pc = "start"
    /\ IF Falsy(redirect_endpoint)
       THEN ws' = [ws EXCEPT !.pc = "done", !.path = path, !.close_code = 1008,
                             !.client = "closed"]
       ELSE ws' = [ws EXCEPT !.pc = "accept", !.path = path,
                             !.local_redirect_endpoint = redirect_endpoint,
                             !.entry_session = current_analysis_id]
    /\ UNCHANGED <<globals, http, response_sets>>

\* lines 417-443: the connection is accepted, the upstream URL and the
\* record are built, and the handler awaits the upstream connection.
WsAccept ==
    /\ ws.pc = "accept"
    /\ LET ws_url == WsUrl(ws.local_redirect_endpoint, ws.path)
       IN  ws' = [ws EXCEPT
               !.pc = "connect", !.client = "open", !.ws_url = ws_url,
               !.ws_data = <<[id |-> WsId, timestamp |-> clock, type |-> "websocket",
                              path |-> ws.path, headers |-> <<>>, body |-> <<>>,
                              body_json |-> <<>>, url |-> ws_url, response |-> <<>>,
                              messages |-> <<>>, error |-> <<>>]>>]
    /\ clock' = clock + 1
    /\ UNCHANGED <<analyses, current_analysis_id, redirect_endpoint, requests_history,
                   disk, dirs, metadata_file, configure_reply, view, redaction, url, state_lock, tasks, http, response_sets>>

\* lines 443-446, 508-513: the upstream connection is open; both relay loops
\* start and await their peer.  echo: the upstream sends back, in order, what
\* it receives, and nothing else.
WsConnectOk(echo) ==
    /\ ws.pc = "connect"
    /\ ws' = [ws EXCEPT !.pc = "relay", !.upstream = "open", !.echo = echo,
                        !.loop_to_upstream = "recv", !.loop_from_upstream = "recv"]
    /\ UNCHANGED <<globals, http, response_sets>>

\* lines 517-519: the upstream connection fails; the error is put in the
\* record and the inbound connection closed with 1011.
WsConnectFail ==
    /\ ws.pc = "connect"
    /\ ws' = [ws EXCEPT !.pc = "closing", !.close_code = 1011,
                        !.client = IF @ = "open" THEN "closed" ELSE @,
                        !.ws_data = <<[@[1] EXCEPT !.error = <<"error">>]>>]
    /\ UNCHANGED <<globals, http, response_sets>>

\* The client goes away.
ClientDisconnects ==
    /\ ws.pc \in {"connect", "relay"}
    /\ ws.client = "open"
    /\ ws' = [ws EXCEPT !.client = "gone"]
    /\ UNCHANGED <<globals, http, response_sets>>

\* The upstream closes the connection; an echoing upstream does so only
\* after it has sent back all it received.
UpstreamCloses ==
    /\ ws.pc = "relay"
    /\ ws.upstream = "open"
    /\ ws.echo => Len(ws.from_upstream) = Len(ws.to_upstream)
    /\ ws' = [ws EXCEPT !.upstream = "closed"]
    /\ UNCHANGED <<globals, http, response_sets>>

\* forward_to_upstream, lines 453-478: a frame arrives from the client; its
\* message is appended to the record, then the frame is sent upstream.
ClientFrame(type) ==
    /\ ws.pc = "relay"
    /\ ws.loop_to_upstream = "recv"
    /\ ws.client = "open"
    /\ Len(ws.from_client) < MaxFrames
    /\ LET frame == Frame(type, Len(ws.from_client) + 1)
       IN  ws' = [ws EXCEPT
               !.ws_data = <<[@[1] EXCEPT !.messages =
                                AppendMessage(@, Message("client->server", frame))]>>,
               !.from_client = Append(@, frame),
               !.loop_to_upstream = "send"]
    /\ UNCHANGED <<globals, http, response_sets>>

\* lines 467 and 478: await upstream_ws.send(...) returns, or raises when the
\* upstream has closed (caught at line 481, the loop ends).
ForwardToUpstream ==
    /\ ws.pc = "relay"
    /\ ws.loop_to_upstream = "send"
    /\ IF ws.upstream = "open"
       THEN ws' = [ws EXCEPT
                !.to_upstream = Append(@, ws.from_client[Len(ws.from_client)]),
                !.loop_to_upstream = "recv"]
       ELSE ws' = [ws EXCEPT !.loop_to_upstream = "done"]
    /\ UNCHANGED <<globals, http, response_sets>>

\* lines 455-456: websocket.receive() gives the disconnect; the loop ends.
SeeDisconnect ==
    /\ ws.pc = "relay"
    /\ ws.loop_to_upstream = "recv"
    /\ ws.client = "gone"
    /\ ws' = [ws EXCEPT !.loop_to_upstream = "done"]
    /\ UNCHANGED <<globals, http, response_sets>>

\* The frames the upstream may send next.
UpstreamFrames ==
    IF ws.echo
    THEN IF Len(ws.from_upstream) < Len(ws.to_upstream)
         THEN {ws.to_upstream[Len(ws.from_upstream) + 1]}
         ELSE {}
    ELSE IF Len(ws.from_upstream) < MaxFrames
         THEN {Frame(type, Len(ws.from_upstream) + 1) : type \in FrameTypes}
         ELSE {}

\* forward_from_upstream, lines 488-502: a frame arrives from the upstream;
\* its message is appended to the record, then the frame is sent to the
\* client.
UpstreamFrame(frame) ==
    /\ ws.pc = "relay"
    /\ ws.loop_from_upstream = "recv"
    /\ ws.upstream = "open"
    /\ ws' = [ws EXCEPT
           !.ws_data = <<[@[1] EXCEPT !.messages =
                            AppendMessage(@, Message("server->client", frame))]>>,
           !.from_upstream = Append(@, frame),
           !.loop_from_upstream = "send"]
    /\ UNCHANGED <<globals, http, response_sets>>

\* lines 499-502: await websocket.send_bytes/send_text returns, or raises
\* when the client has gone (caught at line 505, the loop ends).
DeliverToClient ==
    /\ ws.pc = "relay"
    /\ ws.loop_from_upstream = "send"
    /\ IF ws.client = "open"
       THEN ws' = [ws EXCEPT
                !.to_client = Append(@, ws.from_upstream[Len(ws.from_upstream)]),
                !.loop_from_upstream = "recv"]
       ELSE ws' = [ws EXCEPT !.loop_from_upstream = "done"]
    /\ UNCHANGED <<globals, http, response_sets>>

\* lines 488 and 503: upstream_ws.recv() raises ConnectionClosed; the loop
\* ends.
SeeUpstreamClosed ==
    /\ ws.pc = "relay"
    /\ ws.loop_from_upstream = "recv"
    /\ ws.upstream = "closed"
    /\ ws' = [ws EXCEPT !.loop_from_upstream = "done"]
    /\ UNCHANGED <<globals, http, response_sets>>

\* lines 510-513 and 446: asyncio.gather returns once both loops have ended;
\* leaving the `async with` closes the upstream connection.
GatherReturns ==
    /\ ws.pc = "relay"
    /\ ws.loop_to_upstream = "done"
    /\ ws.loop_from_upstream = "done"
    /\ ws' = [ws EXCEPT !.pc = "closing", !.upstream = "closed"]
    /\ UNCHANGED <<globals, http, response_sets>>

\* lines 521-531, the finally block: the record is appended to the history
\* under the lock and saved, and the inbound connection closed.
WsPersist ==
    /\ ws.pc = "closing"
    /\ requests_history' = Append(requests_history, ws.ws_data[1])
    /\ disk' = save_request(disk, ws.ws_data[1].id, ws.ws_data[1])
    /\ dirs' = save_request_dirs
    /\ ws' = [ws EXCEPT !.pc = "done", !.client = "closed",
                        !.close_code = IF @ = 0 THEN 1000 ELSE @,
                        !.history_appends = @ + 1,
                        !.disk_writes = IF disk' # disk THEN @ + 1 ELSE @]
    /\ UNCHANGED <<analyses, current_analysis_id, redirect_endpoint, metadata_file,
                   configure_reply, view, redaction, url, state_lock, tasks, clock, http, response_sets>>

\* The steps the bridge takes without anything new from a peer.
WsInternal ==
    \/ ForwardToUpstream
    \/ SeeDisconnect
    \/ DeliverToClient
    \/ SeeUpstreamClosed
    \/ GatherReturns
    \/ WsPersist

WebSocketEndpoint ==
    \/ \E path \in WsPaths : WsResolve(path)
    \/ WsAccept
    \/ \E echo \in BOOLEAN : WsConnectOk(echo)
    \/ WsConnectFail
    \/ ClientDisconnects
    \/ UpstreamCloses
    \/ \E type \in FrameTypes : ClientFrame(type)
    \/ \E frame \in UpstreamFrames : UpstreamFrame(frame)
    \/ WsInternal

\* ---------------------------------------------------------- specification

\* Proxied HTTP requests interleaved with create and switch.
Next ==
    \/ Configure
    \/ \E t \in Requests : CatchAll(t, JsonBodies, PlainJsonResponses)
    \/ \E t \in Requests : GeneratePlain(t)

Spec == Init /\ [][Next]_vars

\* One WebSocket bridge interleaved with create and switch.
NextWs ==
    \/ Configure
    \/ WebSocketEndpoint

SpecWs == Init /\ [][NextWs]_vars

\* The configuration surface alone, with every kind of form input, and
\* restarts of the process.
NextCfg ==
    \/ ConfigureAny
    \/ \E env \in {None, DefaultEndpoint} : Restart(env)

SpecCfg == Init /\ [][NextCfg]_vars

\* One proxied request interleaved with create and switch, the analyses
\* with and without redaction.
NextRedact ==
    \/ ConfigureRedact
    \/ CatchAll(1, JsonBodies, PlainJsonResponses)
    \/ GeneratePlain(1)

SpecRedact == Init /\ [][NextRedact]_vars

\* One proxied request, create and switch, over a filesystem whose calls can
\* fail at any time.
NextFaults ==
    \/ Configure
    \/ ConfigureFailing
    \/ CatchAll(1, JsonBodies, PlainJsonResponses)
    \/ \E fault \in Faults :
          \/ \E body \in JsonBodies : RecordRequestFailing(1, body, fault)
          \/ StreamEndFailing(1, fault)
    \/ GeneratePlain(1)

SpecFaults == Init /\ [][NextFaults]_vars

\* One proxied request with every kind of request body and upstream answer,
\* its body streamed chunk by chunk, interleaved with create and switch.
NextBodies ==
    \/ Configure
    \/ CatchAll(1, RequestBodies, UpstreamResponses)
    \/ GenerateLive(1)
    \/ GenerateEncoded(1)

SpecBodies == Init /\ [][NextBodies]_vars

\* redact_sensitive_data on its own: any argument, then the call.
InitUtils ==
    /\ analyses = <<>>
    /\ current_analysis_id = NoId
    /\ redirect_endpoint = None
    /\ requests_history = <<>>
    /\ disk = <<>>
    /\ dirs = {}
    /\ metadata_file = <<>>
    /\ clock = 1
    /\ configure_reply = 0
    /\ view = NoView
    /\ redaction \in {[data |-> data, redacted |-> <<>>] : data \in RedactInputs}
    /\ url = NoUrl
    /\ state_lock = Unlocked
    /\ tasks = NoTasks
    /\ http = [t \in Requests |-> HttpIdle]
    /\ response_sets = [r \in RecordIds |-> 0]
    /\ ws = WsIdle

Redact ==
    /\ redaction.redacted = <<>>
    /\ redaction' = [redaction EXCEPT !.redacted = <<redact_sensitive_data(redaction.data)>>]
    /\ UNCHANGED <<globals_but_redaction, http, response_sets, ws>>

SpecUtils == InitUtils /\ [][Redact]_vars

\* No proxied request is in flight.
Quiet == \A t \in Requests : http[t].pc \in {"start", "done"}

\* load_history over any directory content.  The process has started with
\* one analysis in the registry and none selected; its directory holds up
\* to MaxFiles record files under any names, with any ids and timestamps
\* (timestamp 0: the record has none).
FileNames == 1..MaxFiles
StoredRecords ==
    {[id |-> id, timestamp |-> timestamp, type |-> "http", path |-> "request1",
      headers |-> <<>>, body |-> <<>>, body_json |-> <<>>, url |-> <<>>, response |-> <<>>, messages |-> <<>>, error |-> <<>>] :
        id \in 1..MaxFiles, timestamp \in 0..MaxStamp}
StoredDirectories ==
    UNION {[{<<get_analysis_dir(1), n>> : n \in N} -> StoredRecords] : N \in SUBSET FileNames}

InitLoad ==
    /\ analyses = <<[id |-> 1, title |-> "T", endpoint |-> EndpointNames[1],
                     redact_sensitive |-> FALSE, created_at |-> 1]>>
    /\ current_analysis_id = NoId
    /\ redirect_endpoint = None
    /\ requests_history = <<>>
    /\ disk \in StoredDirectories
    /\ dirs = {get_analysis_dir(1)}
    /\ metadata_file = <<[analyses |-> analyses, current_analysis_id |-> NoId]>>
    /\ clock = 1
    /\ configure_reply = 0
    /\ view = NoView
    /\ redaction = NoRedaction
    /\ url = NoUrl
    /\ state_lock = Unlocked
    /\ tasks = NoTasks
    /\ http = [t \in Requests |-> HttpIdle]
    /\ response_sets = [r \in RecordIds |-> 0]
    /\ ws = WsIdle

NextLoad == \E analysis_id \in SessionIds : SwitchAnalysis(analysis_id)

SpecLoad == InitLoad /\ [][NextLoad]_vars

\* The viewer over the histories loaded from stored directories.
NextView ==
    \/ \E analysis_id \in SessionIds : SwitchAnalysis(analysis_id)
    \/ \E x \in ViewIndexes : ViewLast(x)

SpecView == InitLoad /\ [][NextView]_vars

\* Proxied HTTP requests that do not overlap with configuration changes:
\* create and switch are issued only while no request is in flight.
NextSeq ==
    \/ Quiet /\ Configure
    \/ \E t \in Requests : CatchAll(t, JsonBodies, PlainJsonResponses)
    \/ \E t \in Requests : GeneratePlain(t)

SpecSeq == Init /\ [][NextSeq]_vars

\* The WebSocket bridge without frames: the handshake, the upstream
\* connection, the closes of either peer and the finally block.
WebSocketSilent ==
    \/ \E path \in WsPaths : WsResolve(path)
    \/ WsAccept
    \/ WsConnectOk(FALSE)
    \/ WsConnectFail
    \/ ClientDisconnects
    \/ UpstreamCloses
    \/ SeeDisconnect
    \/ SeeUpstreamClosed
    \/ GatherReturns
    \/ WsPersist

\* One proxied HTTP request and one WebSocket bridge side by side, after
\* the first analysis was created.
NextMixed ==
    \/ analyses = <<>> /\ Configure
    \/ CatchAll(1, JsonBodies, PlainJsonResponses)
    \/ GeneratePlain(1)
    \/ WebSocketSilent

SpecMixed == Init /\ [][NextMixed]_vars

\* ------------------------------------------------------------ upstream URLs
\* Strings are tuples of characters here, as in the utils section.

\* str.rstrip('/') (lines 584 and 423).
RECURSIVE rstrip(_)
rstrip(s) ==
    IF s # <<>> /\ s[Len(s)] = "/" THEN rstrip(SubSeq(s, 1, Len(s) - 1)) ELSE s

\* A target URL that sends the chat completions path to the responses path.
target_url_rewriting(local_redirect_endpoint, path, query_params) ==
    LET to == IF path = <<"v", "1", "/", "c", "h", "a", "t", "/", "c", "o", "m", "p", "l", "e", "t", "i", "o", "n", "s">> THEN <<"v", "1", "/", "r", "e", "s", "p", "o", "n", "s", "e", "s">> ELSE path
        base == rstrip(local_redirect_endpoint)
        target == IF to # <<>> THEN base \o <<"/">> \o to ELSE base
    IN  IF query_params # <<>> THEN target \o <<"?">> \o query_params ELSE target

\* lines 584-586: the endpoint without its trailing slashes, "/" and the path
\* when there is a path, "?" and the query parameters when there are any.
\* query_params is str(request.query_params), the urlencoded parameters.
target_url(local_redirect_endpoint, path, query_params) ==
    LET base == rstrip(local_redirect_endpoint)
        target == IF path # <<>> THEN base \o <<"/">> \o path ELSE base
    IN  IF query_params # <<>> THEN target \o <<"?">> \o query_params ELSE target

\* The first position of s holding one of chars, Len(s) + 1 when none does.
find(s, chars) ==
    LET hits == {i \in 1..Len(s) : s[i] \in chars}
    IN  IF hits = {} THEN Len(s) + 1 ELSE CHOOSE i \in hits : \A j \in hits : i <= j

\* urllib.parse.urlparse (line 420) on scheme://netloc/path?query#fragment:
\* the scheme ends at the first ":", the netloc at the first of "/", "?",
\* "#", the query starts after the first "?".
urlparse(u) ==
    LET colon == find(u, {":"})
        rest == SubSeq(u, colon + 1, Len(u))
        has_netloc == Len(rest) >= 2 /\ rest[1] = "/" /\ rest[2] = "/"
        after == IF has_netloc THEN SubSeq(rest, 3, Len(rest)) ELSE rest
        delim == find(after, {"/", "?", "#"})
        remainder == IF has_netloc THEN SubSeq(after, delim, Len(after)) ELSE after
        no_fragment == SubSeq(remainder, 1, find(remainder, {"#"}) - 1)
        mark == find(no_fragment, {"?"})
    IN  [scheme |-> SubSeq(u, 1, colon - 1),
         netloc |-> IF has_netloc THEN SubSeq(after, 1, delim - 1) ELSE <<>>,
         path |-> SubSeq(no_fragment, 1, mark - 1),
         query |-> SubSeq(no_fragment, mark + 1, Len(no_fragment))]

\* lines 420-428: wss for an https endpoint and ws for any other, the
\* endpoint's host, its path without trailing slashes with "/" and the
\* inbound path, and the ENDPOINT's query; the query of the inbound
\* connection is not read.
ws_url(local_redirect_endpoint, path) ==
    LET parsed == urlparse(local_redirect_endpoint)
        ws_scheme == IF parsed.scheme = <<"h", "t", "t", "p", "s">> THEN <<"w", "s", "s">> ELSE <<"w", "s">>
        base == rstrip(parsed.path)
        ws_path == IF path # <<>> THEN base \o <<"/">> \o path ELSE base
    IN  ws_scheme \o <<":", "/", "/">> \o parsed.netloc \o
        (IF parsed.query # <<>> THEN ws_path \o <<"?">> \o parsed.query ELSE ws_path)

\* The endpoints of an analysis, the inbound paths ({path:path}, without the
\* leading slash) and the inbound queries the URLs are built from.
UrlEndpoints ==
    {<<"h", "t", "t", "p", ":", "/", "/", "h">>,
     <<"h", "t", "t", "p", ":", "/", "/", "h", "/">>,
     <<"h", "t", "t", "p", "s", ":", "/", "/", "h", "/", "v", "1">>,
     <<"h", "t", "t", "p", "s", ":", "/", "/", "h", "/", "v", "1", "/", "/">>,
     <<"h", "t", "t", "p", ":", "/", "/", "h", "/", "v", "1", "?", "k", "=", "v">>,
     <<"h", "t", "t", "p", ":", "/", "/", "h", ":", "8", "0", "/", "v", "1", "/">>}
UrlPaths ==
    {<<>>,
     <<"w", "s">>,
     <<"v", "1", "/", "o", "t", "h", "e", "r">>,
     <<"v", "1", "/", "c", "h", "a", "t", "/", "c", "o", "m", "p", "l", "e", "t", "i", "o", "n", "s">>}
UrlQueries == {<<>>, <<"a", "=", "1">>}

InitUrl ==
    /\ analyses = <<>>
    /\ current_analysis_id = NoId
    /\ redirect_endpoint = None
    /\ requests_history = <<>>
    /\ disk = <<>>
    /\ dirs = {}
    /\ metadata_file = <<>>
    /\ clock = 1
    /\ configure_reply = 0
    /\ view = NoView
    /\ redaction = NoRedaction
    /\ url \in {[NoUrl EXCEPT !.endpoint = e, !.path = p, !.query = q] :
                    e \in UrlEndpoints, p \in UrlPaths, q \in UrlQueries}
    /\ state_lock = Unlocked
    /\ tasks = NoTasks
    /\ http = [t \in Requests |-> HttpIdle]
    /\ response_sets = [r \in RecordIds |-> 0]
    /\ ws = WsIdle

\* catch_all builds the URL of the upstream request.
BuildTargetUrl ==
    /\ url.target_url = <<>>
    /\ url' = [url EXCEPT !.target_url = <<target_url(url.endpoint, url.path, url.query)>>]
    /\ UNCHANGED <<analyses, current_analysis_id, redirect_endpoint, requests_history,
                   disk, dirs, metadata_file, clock, configure_reply, view, redaction,
                   state_lock, tasks, http, response_sets, ws>>

\* websocket_endpoint builds the URL of the upstream connection.
BuildWsUrl ==
    /\ url.ws_url = <<>>
    /\ url' = [url EXCEPT !.ws_url = <<ws_url(url.endpoint, url.path)>>]
    /\ UNCHANGED <<analyses, current_analysis_id, redirect_endpoint, requests_history,
                   disk, dirs, metadata_file, clock, configure_reply, view, redaction,
                   state_lock, tasks, http, response_sets, ws>>

NextUrl ==
    \/ BuildTargetUrl
    \/ BuildWsUrl

SpecUrl == InitUrl /\ [][NextUrl]_vars

\* ------------------------------------------------- state_lock and the loop
\* The handlers as coroutines of one asyncio event loop: a coroutine runs
\* without interruption up to its next suspension (an await on the network,
\* or on state_lock while it is taken), and the loop then runs another one.
\* create and switch act on the shared state as above; of catch_all,
\* websocket_endpoint and view_last the use of the lock and of I/O is
\* modelled (their effect on the history and the files is modelled by
\* CatchAll, WebSocketEndpoint and ViewLast).

LockTasks == 1..MaxTasks

\* One step of a handler.  op: "acquire" and "release" (async with
\* state_lock), "mem" (reads and writes of the module's globals), "file"
\* (synchronous file I/O: makedirs, glob, open, json.dump), "send" (an await
\* that hands data to a socket), "recv" (an await for data from a network
\* peer), "reply" (the handler returns).
S(op, what) == [op |-> op, what |-> what]

\* save_request (lines 145-161): the directory and the file are written
\* under the lock.
save_request_steps ==
    <<S("acquire", "147"), S("file", "save.write"), S("release", "161")>>

\* load_history (lines 102-143): the directory is listed and the files are
\* read under the lock.
load_history_steps ==
    <<S("acquire", "106"), S("file", "load.read"), S("release", "143")>>

\* create_analysis (lines 73-92) with save_analyses_metadata (61-71) called
\* inside the critical section of line 84.
create_analysis_saving_inside ==
    <<S("acquire", "84"), S("mem", "register"), S("file", "makedirs"),
      S("acquire", "63"), S("file", "meta.write"), S("release", "71"),
      S("release", "89")>>

\* create_analysis (lines 73-92): the analysis is registered and its
\* directory created under the lock; save_analyses_metadata (61-71) takes
\* the lock again after it was released.
create_analysis_steps ==
    <<S("acquire", "84"), S("mem", "register"), S("file", "makedirs"),
      S("release", "89"),
      S("acquire", "63"), S("file", "meta.write"), S("release", "71")>>

\* The steps of each handler, in program order.
\*   create:    configure_post, lines 222-234
\*   switch:    configure_post, lines 244-261 (the 404 return of 246-250 is
\*              switch_unknown)
\*   catch_all: lines 540-581, 599, and generate(), lines 636-681, for a
\*              body that parses as JSON, which takes every critical section
\*              (the 400 return of 541-545 is catch_all_refused)
\*   websocket: lines 408-417, 442, 510, 521-531 (the close of 410-411, sent
\*              inside the critical section, is websocket_refused)
\*   view_last: lines 273-301
Program(kind) ==
    CASE kind = "create" ->
            create_analysis_steps
            \o <<S("acquire", "224"), S("mem", "set.current"), S("release", "226")>>
            \o load_history_steps
            \o <<S("reply", "200")>>
      [] kind = "switch" ->
            <<S("acquire", "244"), S("mem", "switch.set"), S("release", "253")>>
            \o load_history_steps
            \o <<S("reply", "200")>>
      [] kind = "switch_unknown" ->
            <<S("release", "250"), S("reply", "404")>>
      [] kind = "catch_all" ->
            <<S("acquire", "540"), S("mem", "resolve"), S("release", "546"),
              S("recv", "request.body"),
              S("acquire", "573"), S("mem", "record.append"), S("release", "579")>>
            \o save_request_steps
            \o <<S("recv", "stream_ctx.__aenter__"), S("recv", "aiter_bytes"),
                 S("acquire", "649"), S("mem", "capture"), S("release", "663")>>
            \o save_request_steps
            \o <<S("acquire", "668"), S("mem", "capture.json"), S("release", "671")>>
            \o save_request_steps
            \o <<S("send", "aclose"), S("reply", "upstream")>>
      [] kind = "catch_all_refused" ->
            <<S("release", "545"), S("reply", "400")>>
      [] kind = "websocket" ->
            <<S("acquire", "408"), S("mem", "resolve"), S("release", "414"),
              S("send", "accept"), S("recv", "websockets.connect"), S("recv", "gather"),
              S("acquire", "524"), S("mem", "ws.append"), S("release", "525")>>
            \o save_request_steps
            \o <<S("send", "close"), S("reply", "closed")>>
      [] kind = "websocket_refused" ->
            <<S("send", "close.1008"), S("release", "411"), S("reply", "1008")>>
      [] kind = "view_last" ->
            <<S("acquire", "273"), S("mem", "view"), S("release", "301"),
              S("reply", "200")>>

Kinds == {"create", "switch", "catch_all", "websocket", "view_last"}

\* A coroutine that has not been started.
NewTask == [kind |-> "", pc |-> 0, status |-> "new", analysis_id |-> NoId]

\* The step a coroutine is at.
CurrentStep(t) == Program(tasks[t].kind)[tasks[t].pc]

\* The loop runs one coroutine at a time: the one that is running goes on,
\* and a ready one is picked only when none is running.
MayRun(t) ==
    \/ tasks[t].status = "running"
    \/ tasks[t].status = "ready" /\ \A u \in LockTasks : tasks[u].status # "running"

Creates == {t \in LockTasks : tasks[t].kind = "create" /\ tasks[t].analysis_id = NoId}

\* A request arrives and the loop starts its handler.
Arrive(t, kind, analysis_id) ==
    /\ tasks[t].status = "new"
    /\ \A u \in LockTasks : tasks[u].status # "running"
    /\ kind = "create" =>
           Cardinality(DOMAIN analyses) + Cardinality(Creates) < MaxSessions
    /\ tasks' = [tasks EXCEPT ![t] = [kind |-> kind, pc |-> 1, status |-> "ready",
                                      analysis_id |-> IF kind = "switch"
                                                      THEN analysis_id ELSE NoId]]
    /\ UNCHANGED <<analyses, current_analysis_id, redirect_endpoint, requests_history,
                   disk, dirs, metadata_file, clock, configure_reply, view, redaction,
                   url, state_lock, http, response_sets, ws>>

\* asyncio.Lock.acquire: taken at once when the lock is free and nobody
\* waits for it; else the coroutine joins the waiters and is suspended.
Acquire(t) ==
    /\ MayRun(t)
    /\ CurrentStep(t).op = "acquire"
    /\ IF state_lock.owner = 0 /\ state_lock.waiters = <<>>
       THEN /\ state_lock' = [state_lock EXCEPT !.owner = t]
            /\ tasks' = [tasks EXCEPT ![t].pc = @ + 1, ![t].status = "running"]
       ELSE /\ state_lock' = [state_lock EXCEPT !.waiters = Append(@, t)]
            /\ tasks' = [tasks EXCEPT ![t].status = "waiting"]
    /\ UNCHANGED <<analyses, current_analysis_id, redirect_endpoint, requests_history,
                   disk, dirs, metadata_file, clock, configure_reply, view, redaction,
                   url, http, response_sets, ws>>

\* asyncio.Lock.release: the first waiter is woken and is the next to hold
\* the lock (no coroutine can take it in between: acquire queues behind a
\* waiter that was woken).
Release(t) ==
    /\ MayRun(t)
    /\ CurrentStep(t).op = "release"
    /\ IF state_lock.waiters = <<>>
       THEN /\ state_lock' = [state_lock EXCEPT !.owner = 0]
            /\ tasks' = [tasks EXCEPT ![t].pc = @ + 1, ![t].status = "running"]
       ELSE LET first == Head(state_lock.waiters)
            IN  /\ state_lock' = [owner |-> first, waiters |-> Tail(state_lock.waiters)]
                /\ tasks' = [tasks EXCEPT ![t].pc = @ + 1, ![t].status = "running",
                                          ![first].pc = @ + 1, ![first].status = "ready"]
    /\ UNCHANGED <<analyses, current_analysis_id, redirect_endpoint, requests_history,
                   disk, dirs, metadata_file, clock, configure_reply, view, redaction,
                   url, http, response_sets, ws>>

\* The task record after a "mem" or "file" step: the handlers that return
\* early leave their program here.
Continue(t, what) ==
    IF what = "resolve" /\ Falsy(redirect_endpoint)
    THEN [tasks[t] EXCEPT !.kind = @ \o "_refused", !.pc = 1, !.status = "running"]
    ELSE IF what = "switch.set" /\ tasks[t].analysis_id \notin DOMAIN analyses
    THEN [tasks[t] EXCEPT !.kind = "switch_unknown", !.pc = 1, !.status = "running"]
    ELSE IF what = "register"
    THEN [tasks[t] EXCEPT !.pc = @ + 1, !.status = "running",
                          !.analysis_id = Cardinality(DOMAIN analyses) + 1]
    ELSE [tasks[t] EXCEPT !.pc = @ + 1, !.status = "running"]

\* A step on the module's globals or on the files, run without suspension.
Compute(t) ==
    /\ MayRun(t)
    /\ CurrentStep(t).op \in {"mem", "file"}
    /\ LET what == CurrentStep(t).what
           id == tasks[t].analysis_id
       IN  /\ tasks' = [tasks EXCEPT ![t] = Continue(t, what)]
           /\ CASE what = "register" ->
                     LET analysis == NewAnalysis("T", EndpointNames[Cardinality(DOMAIN analyses) + 1], FALSE)
                     IN  /\ analyses' = [i \in DOMAIN analyses \cup {analysis.id} |->
                                            IF i = analysis.id THEN analysis ELSE analyses[i]]
                         /\ UNCHANGED <<current_analysis_id, redirect_endpoint,
                                        requests_history, dirs, metadata_file>>
                [] what = "makedirs" ->
                     /\ dirs' = makedirs(dirs, get_analysis_dir(id))
                     /\ UNCHANGED <<analyses, current_analysis_id, redirect_endpoint,
                                    requests_history, metadata_file>>
                [] what = "meta.write" ->
                     /\ metadata_file' = <<[analyses |-> analyses,
                                            current_analysis_id |-> current_analysis_id]>>
                     /\ UNCHANGED <<analyses, current_analysis_id, redirect_endpoint,
                                    requests_history, dirs>>
                [] what \in {"set.current", "switch.set"} /\ id \in DOMAIN analyses ->
                     /\ current_analysis_id' = analyses[id].id
                     /\ redirect_endpoint' = analyses[id].endpoint
                     /\ UNCHANGED <<analyses, requests_history, dirs, metadata_file>>
                [] what = "load.read" ->
                     /\ requests_history' \in load_history(current_analysis_id, requests_history)
                     /\ dirs' = load_history_dirs(current_analysis_id)
                     /\ UNCHANGED <<analyses, current_analysis_id, redirect_endpoint,
                                    metadata_file>>
                [] OTHER ->
                     UNCHANGED <<analyses, current_analysis_id, redirect_endpoint,
                                 requests_history, dirs, metadata_file>>
    /\ UNCHANGED <<disk, clock, configure_reply, view, redaction, url, state_lock,
                   http, response_sets, ws>>

\* An await on the network: the coroutine is suspended and the loop is free.
Await(t) ==
    /\ MayRun(t)
    /\ CurrentStep(t).op \in {"send", "recv"}
    /\ tasks' = [tasks EXCEPT ![t].status = "io"]
    /\ UNCHANGED <<analyses, current_analysis_id, redirect_endpoint, requests_history,
                   disk, dirs, metadata_file, clock, configure_reply, view, redaction,
                   url, state_lock, http, response_sets, ws>>

\* The awaited operation of kind op has completed: the coroutine is ready.
Completes(t, op) ==
    /\ tasks[t].status = "io"
    /\ CurrentStep(t).op = op
    /\ tasks' = [tasks EXCEPT ![t].pc = @ + 1, ![t].status = "ready"]
    /\ UNCHANGED <<analyses, current_analysis_id, redirect_endpoint, requests_history,
                   disk, dirs, metadata_file, clock, configure_reply, view, redaction,
                   url, state_lock, http, response_sets, ws>>

\* The handler returns.
Return(t) ==
    /\ MayRun(t)
    /\ CurrentStep(t).op = "reply"
    /\ tasks' = [tasks EXCEPT ![t].status = "done"]
    /\ UNCHANGED <<analyses, current_analysis_id, redirect_endpoint, requests_history,
                   disk, dirs, metadata_file, clock, configure_reply, view, redaction,
                   url, state_lock, http, response_sets, ws>>

\* What the loop does for coroutine t on its own.
Run(t) == Acquire(t) \/ Release(t) \/ Compute(t) \/ Await(t) \/ Return(t)

\* The state the handlers start from: the service was restarted with one
\* analysis in the registry, one record in its directory, and no current
\* analysis in the registry file (no endpoint in the environment).
InitLock ==
    /\ analyses = <<[id |-> 1, title |-> "T", endpoint |-> EndpointNames[1],
                     redact_sensitive |-> FALSE, created_at |-> 1]>>
    /\ current_analysis_id = NoId
    /\ redirect_endpoint = None
    /\ requests_history = <<>>
    /\ disk = [p \in {<<get_analysis_dir(1), 1>>} |->
                  [id |-> 1, timestamp |-> 1, type |-> "http", path |-> "request1",
                   headers |-> <<>>, body |-> <<>>, body_json |-> <<>>, url |-> <<>>,
                   response |-> <<>>, messages |-> <<>>, error |-> <<>>]]
    /\ dirs = {get_analysis_dir(1)}
    /\ metadata_file = <<[analyses |-> analyses, current_analysis_id |-> NoId]>>
    /\ clock = 2
    /\ configure_reply = 0
    /\ view = NoView
    /\ redaction = NoRedaction
    /\ url = NoUrl
    /\ state_lock = Unlocked
    /\ tasks = [t \in LockTasks |-> NewTask]
    /\ http = [t \in Requests |-> HttpIdle]
    /\ response_sets = [r \in RecordIds |-> 0]
    /\ ws = WsIdle

NextLock ==
    \/ \E t \in LockTasks, kind \in Kinds, analysis_id \in SessionIds :
          Arrive(t, kind, analysis_id)
    \/ \E t \in LockTasks : Run(t)
    \/ \E t \in LockTasks, op \in {"send", "recv"} : Completes(t, op)

SpecLock == InitLock /\ [][NextLock]_vars

\* The scheduling of asyncio: a coroutine that can run is run, and a send or
\* close on a socket completes; nothing makes a network peer send the data a
\* coroutine waits for.
FairLock ==
    SpecLock /\ \A t \in LockTasks : WF_vars(Run(t)) /\ WF_vars(Completes(t, "send"))

\* ------------------------------------------------------------------ claims

\* The tasks whose upstream request has been issued.
Forwarded(t) == http[t].target_url # <<>>

\* C1: every file of a record lies in the directory of the analysis that was
\* current when the record's request resolved its endpoint (so never in
\* another analysis' directory, never in two).  Stated for the requests that
\* resolved their endpoint while an analysis was current.
C1_FilesUnderResolvedSession ==
    \A p \in DOMAIN disk :
        (p[2] \in Requests /\ http[p[2]].entry_session # NoId)
            => p[1] = get_analysis_dir(http[p[2]].entry_session)

\* C2: once an exchange whose upstream headers were received is over, the
\* response of its record has been assigned exactly once; no record's
\* response is ever assigned twice.  Stated for the requests that resolved
\* their endpoint while an analysis was current.
C2_ResponseSetExactlyOnce ==
    \A t \in Requests :
        http[t].entry_session # NoId
        => /\ (http[t].pc = "done" /\ http[t].upstream # <<>>) => response_sets[t] = 1
           /\ response_sets[t] <= 1

\* C3: the upstream request goes to the endpoint that was the redirect
\* endpoint when the request entered, whatever create and switch did since.
C3_ForwardedToEntryEndpoint ==
    \A t \in Requests :
        Forwarded(t) => http[t].target_url = <<http[t].entry_endpoint, http[t].path>>

\* C3 witness: a request has been forwarded after the redirect endpoint changed.
C3_Witness ==
    \E t \in Requests :
        /\ Forwarded(t)
        /\ http[t].pc = "stream"
        /\ http[t].entry_session # NoId
        /\ redirect_endpoint # http[t].entry_endpoint

\* C4: when the upstream request of an exchange has been issued, a file of
\* its record is on disk.
C4_RecordOnDiskBeforeForward ==
    \A t \in Requests : Forwarded(t) => \E p \in DOMAIN disk : p[2] = t

\* C5: a proxied request (not favicon.ico) that arrives while no analysis is
\* current is answered 400, is not forwarded and records nothing.
C5_NoSessionRejected ==
    \A t \in Requests :
        (http[t].pc # "start" /\ http[t].path # "favicon.ico"
            /\ http[t].entry_session = NoId)
        => /\ http[t].pc = "done"
           /\ http[t].reply = 400
           /\ ~Forwarded(t)
           /\ http[t].request_data = NoRecord

\* C6: the step in which the upstream attempt fails before headers answers
\* 502 and changes neither the history nor the files: the record appended
\* for the request stays as it is, and no response is assigned.
C6_ConnectFailureLeavesRecord ==
    [][\A t \in Requests :
          (http[t].pc = "forward" /\ http'[t].pc = "done")
          => /\ http'[t].reply = 502
             /\ requests_history' = requests_history
             /\ disk' = disk
             /\ response_sets' = response_sets]_vars

\* C6 witness: a request was answered 502 and its record is in the history
\* and on disk, without a response.
C6_Witness ==
    \E t \in Requests :
        /\ http[t].pc = "done" /\ http[t].reply = 502
        /\ \E i \in 1..Len(requests_history) :
              requests_history[i].id = t /\ requests_history[i].response = <<>>
        /\ \E p \in DOMAIN disk : p[2] = t /\ disk[p].response = <<>>

\* The messages of a record that carry one direction, in the record's order.
MessagesOf(messages, direction) ==
    LET Test(m) == m.direction = direction
    IN  SelectSeq(messages, Test)

\* The message records of a sequence of frames.
Recorded(direction, frames) ==
    [i \in 1..Len(frames) |->
        [direction |-> direction,
         content |-> <<"str", frames[i].data[2]>>,
         type |-> IF frames[i].type = "bytes" THEN "binary" ELSE "text"]]

IsPrefix(s, t) == Len(s) <= Len(t) /\ \A i \in 1..Len(s) : s[i] = t[i]

\* C7: once one relay loop has ended, the bridge goes on to its end on its
\* own: as long as the record is not persisted it has a step to take that
\* needs nothing from a peer (so the sibling loop is ended and the record
\* persisted even if the surviving peer never sends or closes).
C7_BridgeEndsOnceALoopEnds ==
    (/\ ws.pc = "relay"
     /\ (ws.loop_to_upstream = "done" \/ ws.loop_from_upstream = "done"))
    => ENABLED WsInternal

\* C8: an accepted connection gives one record, appended to the history once
\* and written to disk once, when the bridge ends and not before.
C8_ExactlyOneRecord ==
    /\ ws.history_appends <= 1
    /\ ws.disk_writes <= 1
    /\ ws.pc # "done" => (ws.history_appends = 0 /\ ws.disk_writes = 0)
    /\ (ws.pc = "done" /\ ws.close_code # 1008)
          => (ws.history_appends = 1 /\ ws.disk_writes = 1)

\* C9: a frame is sent on only after its message is in the record (the
\* frames sent on are, in order, the first recorded ones of their direction),
\* and the messages of each direction are in the order the frames arrived.
C9_RecordedBeforeForwarded ==
    ws.ws_data # NoRecord
    => LET messages == ws.ws_data[1].messages
           to_server == MessagesOf(messages, "client->server")
           to_client == MessagesOf(messages, "server->client")
       IN  /\ to_server = Recorded("client->server", ws.from_client)
           /\ to_client = Recorded("server->client", ws.from_upstream)
           /\ IsPrefix(Recorded("client->server", ws.to_upstream), to_server)
           /\ IsPrefix(Recorded("server->client", ws.to_client), to_client)
           /\ Len(messages) = Len(to_server) + Len(to_client)

\* C9 witness: the two loops interleaved (client, upstream, client) and both
\* client frames were sent on.
C9_Witness ==
    /\ ws.ws_data # NoRecord
    /\ Len(ws.ws_data[1].messages) = 3
    /\ ws.ws_data[1].messages[1].direction = "client->server"
    /\ ws.ws_data[1].messages[2].direction = "server->client"
    /\ ws.ws_data[1].messages[3].direction = "client->server"
    /\ Len(ws.to_upstream) = 2
    /\ Len(ws.to_client) = 1

\* The record files of the bridge.
WsFiles == {p \in DOMAIN disk : p[2] = WsId}

\* C10 as stated: the persisted record has one entry per frame received,
\* tagged with its direction, and with an echoing upstream n client frames
\* (all of them sent on to that upstream) give 2n entries, n per direction.
C10_EchoGivesTwoEntriesPerFrame ==
    \A p \in WsFiles :
        LET messages == disk[p].messages
        IN  /\ MessagesOf(messages, "client->server")
                  = Recorded("client->server", ws.from_client)
            /\ MessagesOf(messages, "server->client")
                  = Recorded("server->client", ws.from_upstream)
            /\ Len(messages) = Len(ws.from_client) + Len(ws.from_upstream)
            /\ (ws.echo /\ ws.to_upstream = ws.from_client) =>
                  /\ Len(messages) = 2 * Len(ws.from_client)
                  /\ Len(MessagesOf(messages, "server->client")) = Len(ws.from_client)

\* C10 amended: the persisted record has one entry per frame received,
\* tagged with its direction; with an echoing upstream, n client frames whose
\* echoes all reached the bridge give 2n entries, n per direction.
C10_OneEntryPerFrameReceived ==
    \A p \in WsFiles :
        LET messages == disk[p].messages
        IN  /\ MessagesOf(messages, "client->server")
                  = Recorded("client->server", ws.from_client)
            /\ MessagesOf(messages, "server->client")
                  = Recorded("server->client", ws.from_upstream)
            /\ Len(messages) = Len(ws.from_client) + Len(ws.from_upstream)
            /\ (ws.echo /\ Len(ws.from_upstream) = Len(ws.from_client)) =>
                  /\ Len(messages) = 2 * Len(ws.from_client)
                  /\ Len(MessagesOf(messages, "server->client")) = Len(ws.from_client)

\* C10 witness: an echoing upstream, two client frames, four entries
\* persisted.
C10_Witness ==
    \E p \in WsFiles :
        /\ ws.echo
        /\ Len(ws.from_client) = 2
        /\ Len(disk[p].messages) = 4

\* C11: a bridge opened under a session stays with it: its upstream URL is
\* built from the endpoint that session had at connection start, and the
\* file of its record is in that session's directory, whatever create and
\* switch did during the bridge's lifetime.
C11_BridgeKeepsEntrySession ==
    ws.entry_session # NoId
    => /\ ws.ws_url # <<>>
            => ws.ws_url = WsUrl(analyses[ws.entry_session].endpoint, ws.path)
       /\ \A p \in WsFiles : p[1] = get_analysis_dir(ws.entry_session)

\* C12: an inbound WebSocket connection that arrives while no analysis is
\* current is closed with 1008: it is not accepted, no upstream connection is
\* opened, and no record is built, appended or written.
C12_NoSessionClosed1008 ==
    (ws.pc # "start" /\ ws.entry_session = NoId)
    => /\ ws.pc = "done"
       /\ ws.close_code = 1008
       /\ ws.upstream = "none"
       /\ ws.ws_data = NoRecord
       /\ ws.history_appends = 0
       /\ WsFiles = {}

\* C13: a bridge whose upstream connection failed ends with close code 1011
\* and one record file, which carries the error and no messages; and a
\* record carries the error only when it has no messages.
C13_ConnectFailureRecorded ==
    /\ (ws.ws_data # NoRecord /\ ws.ws_data[1].error # <<>>)
          => (ws.close_code = 1011 /\ ws.ws_data[1].messages = <<>>)
    /\ \A p \in WsFiles : disk[p].error # <<>> => disk[p].messages = <<>>
    /\ (ws.pc = "done" /\ ws.close_code = 1011)
          => /\ Cardinality(WsFiles) = 1
             /\ \A p \in WsFiles : disk[p].error # <<>> /\ disk[p].messages = <<>>

\* C14: a restart that follows a successful create or switch restores what
\* was in memory: the same registry, the same active session, its endpoint
\* and its records.
C14_RestartRestoresActiveSession ==
    [][(configure_reply = 200 /\ configure_reply' = 0)
          => /\ analyses' = analyses
             /\ current_analysis_id' = current_analysis_id
             /\ redirect_endpoint' = redirect_endpoint
             /\ requests_history' \in load_history(current_analysis_id, <<>>)]_vars

\* The recorded requests that entered while analysis s was the current one.
IssuedUnder(s) ==
    {t \in Requests : http[t].entry_session = s /\ http[t].request_data # NoRecord}

\* C15: when create and switch happen only while no request is in flight,
\* the directory of each session holds exactly one file per request issued
\* while it was active, each with the id and the path of its request, and
\* there is no record file anywhere else.
C15_DirectoryHoldsOwnRequests ==
    /\ \A p \in DOMAIN disk : p[1] \in {get_analysis_dir(s) : s \in DOMAIN analyses}
    /\ \A s \in DOMAIN analyses :
          /\ {p[2] : p \in FilesOf(get_analysis_dir(s))} = IssuedUnder(s)
          /\ \A p \in FilesOf(get_analysis_dir(s)) :
                /\ disk[p].id = p[2]
                /\ disk[p].path = http[p[2]].path

\* C15 witness: two sessions, one completed request under each, and one
\* record in each directory, with different paths.
C15_Witness ==
    /\ Quiet
    /\ DOMAIN analyses = {1, 2}
    /\ \E p1 \in FilesOf(get_analysis_dir(1)), p2 \in FilesOf(get_analysis_dir(2)) :
          /\ FilesOf(get_analysis_dir(1)) = {p1}
          /\ FilesOf(get_analysis_dir(2)) = {p2}
          /\ disk[p1].path # disk[p2].path
          /\ disk[p1].response # <<>>
          /\ disk[p2].response # <<>>

\* Ascending by timestamp, no two equal.
AscendingTimestamps(history) ==
    \A i \in 1..(Len(history) - 1) : history[i].timestamp < history[i + 1].timestamp

\* The records of the files of a directory, as a bag would hold them: one
\* per file.
SameRecords(history, dir) ==
    \E s \in SeqsOf(FilesOf(dir)) :
        history = [i \in 1..Len(s) |-> disk[s[i]]]

\* Every file of the directory has a timestamp, and no two the same one.
DistinctTimestamps(dir) ==
    /\ \A p \in FilesOf(dir) : disk[p].timestamp # 0
    /\ \A p, q \in FilesOf(dir) : disk[p].timestamp = disk[q].timestamp => p = q

\* C16: when the files of the active session all carry a timestamp, no two
\* the same, the loaded history holds the record of every file once, in
\* ascending timestamp order, whatever the file names and ids.
C16_LoadedInTimestampOrder ==
    (configure_reply = 200 /\ DistinctTimestamps(get_analysis_dir(current_analysis_id)))
    => /\ SameRecords(requests_history, get_analysis_dir(current_analysis_id))
       /\ AscendingTimestamps(requests_history)

\* C16 witness: three records loaded whose timestamps run against both the
\* file names and the ids.
C16_Witness ==
    /\ configure_reply = 200
    /\ DistinctTimestamps(get_analysis_dir(current_analysis_id))
    /\ Len(requests_history) = 3
    /\ requests_history[1].id > requests_history[2].id
    /\ requests_history[2].id > requests_history[3].id
    /\ \E p, q \in FilesOf(get_analysis_dir(current_analysis_id)) :
          p[2] < q[2] /\ disk[p].timestamp > disk[q].timestamp

\* C17: the loaded history is ordered by sort key (the timestamp, or the id
\* of a record without one) and, among equal keys, by id; so it is the same
\* list for every order the directory lists the files in.
C17_TiesOrderedById ==
    configure_reply = 200
    => /\ \A i \in 1..(Len(requests_history) - 1) :
             \/ sort_key(requests_history[i]) < sort_key(requests_history[i + 1])
             \/ /\ sort_key(requests_history[i]) = sort_key(requests_history[i + 1])
                /\ requests_history[i].id <= requests_history[i + 1].id
       /\ Cardinality(LoadedHistories(get_analysis_dir(current_analysis_id))) = 1

\* C18: a switch to an id that is not in the registry answers 404, and the
\* step that answers 404 leaves the active session, the redirect endpoint,
\* the registry (in memory and on file) and the history as they were.
C18_UnknownSwitchAnswers404 ==
    [][/\ \A analysis_id \in SessionIds \ DOMAIN analyses :
             SwitchAnalysis(analysis_id) => configure_reply' = 404
       /\ configure_reply' = 404
             => UNCHANGED <<analyses, current_analysis_id, redirect_endpoint,
                            requests_history, metadata_file, disk>>]_vars

\* C18 witness: 404 was answered while a session was active.
C18_Witness ==
    /\ configure_reply = 404
    /\ current_analysis_id # NoId
    /\ redirect_endpoint = analyses[current_analysis_id].endpoint

\* C19: create refuses an empty title or endpoint, so no analysis of the
\* registry has an empty stored title or an empty stored endpoint.
C19_NoEmptyTitleOrEndpoint ==
    \A s \in DOMAIN analyses :
        analyses[s].title # "" /\ analyses[s].endpoint # ""

\* C20: the step of a successful create makes the analysis it added the
\* current one and its endpoint the redirect endpoint; the step of a switch
\* to a known id makes that analysis the current one and its endpoint the
\* redirect endpoint; the current id is always None or one id of the registry.
C20_ActiveSessionFollowsConfigure ==
    [][/\ (configure_reply' = 200 /\ DOMAIN analyses' # DOMAIN analyses)
             => /\ DOMAIN analyses' \ DOMAIN analyses = {current_analysis_id'}
                /\ redirect_endpoint' = analyses'[current_analysis_id'].endpoint
       /\ \A analysis_id \in DOMAIN analyses :
             SwitchAnalysis(analysis_id)
             => /\ current_analysis_id' = analysis_id
                /\ redirect_endpoint' = analyses[analysis_id].endpoint
                /\ configure_reply' = 200
       /\ current_analysis_id' \in DOMAIN analyses' \cup {NoId}]_vars

\* C20 witness: two analyses were created and the first one was switched
\* back to.
C20_Witness ==
    /\ DOMAIN analyses = {1, 2}
    /\ configure_reply = 200
    /\ current_analysis_id = 1
    /\ redirect_endpoint = analyses[1].endpoint
    /\ analyses[1].endpoint # analyses[2].endpoint

\* C21: no step changes the id, title, endpoint, redaction flag or creation
\* time of an analysis that exists, and no analysis leaves the registry.
C21_SessionsNeverMutated ==
    [][\A s \in DOMAIN analyses :
          s \in DOMAIN analyses' /\ analyses'[s] = analyses[s]]_vars

\* Two analyses, the first one redacting and selected again after the second
\* was created, and a request proxied and recorded to its end.
C21_Witness ==
    /\ Cardinality(DOMAIN analyses) = 2
    /\ analyses[1].redact_sensitive
    /\ current_analysis_id = 1
    /\ http[1].pc = "done"
    /\ Forwarded(1)
    /\ Len(requests_history) > 0

\* C22: view_last(x) answers 200 with the x-th record of the history,
\* counted from 1, when 1 <= x <= Len(requests_history), and 404 without a
\* record otherwise (empty history included); it leaves the history alone.
C22_ViewLastIsOneBased ==
    [][\A x \in ViewIndexes :
          ViewLast(x) =>
              /\ requests_history' = requests_history
              /\ view'.index = x
              /\ IF 1 <= x /\ x <= Len(requests_history)
                 THEN /\ view'.status_code = 200
                      /\ view'.request_data = <<requests_history[x]>>
                 ELSE /\ view'.status_code = 404
                      /\ view'.request_data = <<>>]_vars

\* The second of three different records is shown.
C22_Witness ==
    /\ Len(requests_history) = 3
    /\ requests_history[1] # requests_history[2]
    /\ requests_history[3] # requests_history[2]
    /\ view.status_code = 200
    /\ view.index = 2
    /\ view.request_data = <<requests_history[2]>>

\* C23: a request whose record was built is sent upstream, and answered with
\* the upstream's status or 502, whatever happens while the record is
\* persisted.
C23_PersistFailureNeverAborts ==
    \A t \in Requests :
        http[t].pc = "done" /\ http[t].request_data # <<>>
            => /\ Forwarded(t)
               /\ http[t].reply \in {200, 502}

\* C24: a request that resolved its endpoint and whose body was read is
\* recorded and sent upstream whatever its body is: the record keeps the
\* text of a body that is not empty, and carries body_json exactly when the
\* body is JSON.
C24_BadBodyNeverFails ==
    \A t \in Requests :
        http[t].pc = "done" /\ http[t].local_redirect_endpoint # None
            => /\ Forwarded(t)
               /\ http[t].reply \in {200, 502}
               /\ http[t].request_data # <<>>
               /\ \A body \in RequestBodies :
                     http[t].request_data[1].body = <<body>>
                         => http[t].request_data[1].body_json = body.json

\* C25: every record file of an analysis holds the request headers and the
\* response headers redacted when the analysis redacts and as received when
\* it does not, and in both cases the request body, its parsed JSON and the
\* response body as they were received.
C25_RedactionFollowsSessionFlag ==
    \A p \in DOMAIN disk :
        LET flag == analyses[p[1]].redact_sensitive
            rec == disk[p]
        IN  rec.type = "http" =>
              /\ rec.headers = <<IF flag THEN redact_sensitive_data(RequestHeaders)
                                 ELSE RequestHeaders>>
              /\ rec.body_json = <<JsonPayload>>
              /\ rec.body = <<[kind |-> "json", json |-> <<JsonPayload>>]>>
              /\ rec.response # <<>> =>
                    /\ rec.response[1].headers =
                           IF flag THEN redact_sensitive_data(ResponseHeaders)
                           ELSE ResponseHeaders
                    /\ rec.response[1].body # <<>> =>
                           /\ ~rec.response[1].body[1].replaced
                           /\ rec.response[1].body_json = <<rec.response[1].body[1].data>>

\* A file of a redacting analysis, its response captured while another
\* analysis that does not redact exists: the headers are redacted, the JSON
\* body, which redaction would change, is not.
C25_Witness ==
    \E p \in DOMAIN disk :
        /\ analyses[p[1]].redact_sensitive
        /\ \E s \in DOMAIN analyses : ~analyses[s].redact_sensitive
        /\ disk[p].headers = <<redact_sensitive_data(RequestHeaders)>>
        /\ redact_sensitive_data(RequestHeaders) # RequestHeaders
        /\ disk[p].response # <<>>
        /\ disk[p].response[1].headers = redact_sensitive_data(ResponseHeaders)
        /\ redact_sensitive_data(ResponseHeaders) # ResponseHeaders
        /\ disk[p].body_json = <<JsonPayload>>
        /\ redact_sensitive_data(JsonPayload) # JsonPayload

\* The keys the statement calls sensitive: the lower-cased key is a listed
\* name, or contains "authorization", "secret", "password" or "key".
C26_Sensitive(k) ==
    \/ \E name \in sensitive_keys :
          /\ Len(name) = Len(k)
          /\ \A i \in 1..Len(k) : lower_char(k[i]) = name[i]
    \/ \E part \in {<<"a", "u", "t", "h", "o", "r", "i", "z", "a", "t", "i", "o", "n">>,
                    <<"s", "e", "c", "r", "e", "t">>,
                    <<"p", "a", "s", "s", "w", "o", "r", "d">>,
                    <<"k", "e", "y">>} :
          \E i \in 0..(Len(k) - Len(part)) :
              \A j \in 1..Len(part) : lower_char(k[i + j]) = part[j]

\* The replacement the statement gives for the value of a sensitive key.
C26_Replacement(v) ==
    IF /\ v[1] = "str"
       /\ Len(v[2]) >= 7
       /\ [i \in 1..7 |-> lower_char(v[2][i])] = <<"b", "e", "a", "r", "e", "r", " ">>
    THEN <<"str", <<"B", "e", "a", "r", "e", "r", " ", "[", "R", "E", "D", "A", "C", "T", "E", "D", "]">>>>
    ELSE <<"str", <<"[", "R", "E", "D", "A", "C", "T", "E", "D", "]">>>>

\* C26 as stated: the result has the keys of the argument; the value of a
\* sensitive key is replaced, and every other key keeps its value.
C26_OtherKeysKeepTheirValue ==
    (redaction.redacted # <<>> /\ redaction.data[1] = "dict") =>
        LET items == redaction.data[2]
            result == redaction.redacted[1]
        IN  /\ result[1] = "dict"
            /\ Len(result[2]) = Len(items)
            /\ \A i \in 1..Len(items) :
                  /\ result[2][i][1] = items[i][1]
                  /\ result[2][i][2] =
                         IF C26_Sensitive(items[i][1])
                         THEN C26_Replacement(items[i][2])
                         ELSE items[i][2]

\* What a value under a key that is not sensitive, or an item of a list,
\* becomes: itself when it is a string or a number, and when it is a dict or
\* a list the result of the same redaction.
C26_Kept(v, w) ==
    IF v[1] \in {"dict", "list"} THEN w = redact_sensitive_data(v) ELSE w = v

\* C26 (amended): the result has the keys of the argument, in its order; the
\* value of a sensitive key is replaced ("Bearer [REDACTED]" for a string
\* starting with "bearer " in any case, "[REDACTED]" otherwise); the value of
\* any other key is kept when it is a string or a number and is redacted in
\* turn when it is a dict or a list; a list keeps its length and its items
\* are treated in the same way; a string or a number is returned unchanged.
C26_RedactsSensitiveKeysRecursively ==
    redaction.redacted # <<>> =>
        LET data == redaction.data
            result == redaction.redacted[1]
        IN  IF data[1] = "dict"
            THEN /\ result[1] = "dict"
                 /\ Len(result[2]) = Len(data[2])
                 /\ \A i \in 1..Len(data[2]) :
                       /\ result[2][i][1] = data[2][i][1]
                       /\ IF C26_Sensitive(data[2][i][1])
                          THEN result[2][i][2] = C26_Replacement(data[2][i][2])
                          ELSE C26_Kept(data[2][i][2], result[2][i][2])
            ELSE IF data[1] = "list"
            THEN /\ result[1] = "list"
                 /\ Len(result[2]) = Len(data[2])
                 /\ \A i \in 1..Len(data[2]) : C26_Kept(data[2][i], result[2][i])
            ELSE result = data

\* The call of test_redact_sensitive_data_avoid_tokens, and a bearer value:
\* "token" is redacted, "prompt_tokens" keeps its number.
C26_Witness ==
    /\ redaction.data =
           <<"dict", << <<<<"t", "o", "k", "e", "n">>, <<"str", <<"s", "k">>>> >>,
                        <<<<"p", "r", "o", "m", "p", "t", "_", "t", "o", "k", "e", "n", "s">>, <<"num", 10>> >> >> >>
    /\ redaction.redacted =
           << <<"dict", << <<<<"t", "o", "k", "e", "n">>, <<"str", <<"[", "R", "E", "D", "A", "C", "T", "E", "D", "]">>>> >>,
                           <<<<"p", "r", "o", "m", "p", "t", "_", "t", "o", "k", "e", "n", "s">>, <<"num", 10>> >> >> >> >>

\* C27: for an upstream answer without content-encoding, a chunk is read
\* only when every chunk read before it has been delivered (at most the last
\* chunk read is still to be delivered, and none when the next is about to be
\* read); the caller has received the chunks read, in their order; and a
\* response body in a file of the request's record is the text of all the
\* chunks read for that request.
C27_PlainChunksRelayedLive ==
    \A t \in Requests :
        (http[t].upstream # <<>> /\ ~needs_decompression(http[t].upstream[1])) =>
            LET u == http[t].upstream[1]
                chunks == http[t].response_chunks
                delivered == http[t].delivered
            IN  /\ Len(delivered) <= Len(chunks)
                /\ Len(chunks) <= Len(delivered) + 1
                /\ http[t].pc = "stream" => Len(delivered) = Len(chunks)
                /\ \A i \in 1..Len(delivered) :
                      delivered[i] = [encoding |-> "", corrupt |-> FALSE, data |-> <<chunks[i]>>]
                /\ \A p \in DOMAIN disk :
                      (disk[p].id = t /\ disk[p].response # <<>>) =>
                          disk[p].response[1].body =
                              IF chunks = <<>> THEN <<>>
                              ELSE <<[encoding |-> "", corrupt |-> FALSE, data |-> chunks,
                                      replaced |-> ~u.valid_utf8]>>

\* C28: for an upstream answer declaring gzip, deflate or br, the caller has
\* received nothing while the upstream stream is being read, never receives
\* more than one chunk, and has received exactly one once the stream has
\* ended: all the bytes read, decompressed, or as they were read when they do
\* not decompress.
C28_EncodedBodyDeliveredOnce ==
    \A t \in Requests :
        (http[t].upstream # <<>> /\ http[t].upstream[1].content_encoding \in {"gzip", "deflate", "br"}) =>
            LET u == http[t].upstream[1]
                chunks == http[t].response_chunks
                delivered == http[t].delivered
            IN  /\ http[t].pc = "stream" => delivered = <<>>
                /\ Len(delivered) <= 1
                /\ http[t].stream_end = "ok" => Len(delivered) = 1
                /\ delivered # <<>> =>
                      /\ delivered[1].data = chunks
                      /\ chunks # <<>> =>
                            IF u.corrupt
                            THEN delivered[1] = [encoding |-> u.content_encoding,
                                                 corrupt |-> TRUE, data |-> chunks]
                            ELSE delivered[1] = [encoding |-> "", corrupt |-> FALSE,
                                                 data |-> chunks]

\* A gzip answer of two chunks that the client did not decode, read to its
\* end: the caller has one chunk, the decompressed body.
C28_Witness ==
    \E t \in Requests :
        /\ http[t].pc = "done"
        /\ http[t].upstream # <<>>
        /\ http[t].upstream[1].content_encoding = "gzip"
        /\ ~http[t].upstream[1].decoded
        /\ ~http[t].upstream[1].corrupt
        /\ http[t].stream_end = "ok"
        /\ Len(http[t].response_chunks) = 2
        /\ http[t].delivered = <<[encoding |-> "", corrupt |-> FALSE, data |-> <<1, 2>>]>>

\* C29: every step keeps the files there are, and each file holds a record
\* of the id it is named after (so a directory has one file per id); a step
\* of a proxied request writes at most one file, in the directory of the
\* current analysis, and every record it adds to the history or changes is,
\* as it now is, the content of the file of its id; and saving the content
\* of a file of that directory again leaves the files as they are.
C29_SaveRewritesOneFilePerId ==
    [][/\ \A p \in DOMAIN disk : p \in DOMAIN disk'
       /\ \A p \in DOMAIN disk' : disk'[p].id = p[2]
       /\ \A p \in DOMAIN disk :
             p[1] = get_analysis_dir(current_analysis_id)
                 => save_request(disk, p[2], disk[p]) = disk
       /\ http' # http =>
             /\ Cardinality({p \in DOMAIN disk' :
                               p \notin DOMAIN disk \/ disk'[p] # disk[p]}) <= 1
             /\ \A p \in DOMAIN disk' :
                   (p \notin DOMAIN disk \/ disk'[p] # disk[p])
                       => p[1] = get_analysis_dir(current_analysis_id)
             /\ current_analysis_id # NoId =>
                   \A i \in 1..Len(requests_history') :
                       (i > Len(requests_history)
                          \/ requests_history'[i] # requests_history[i])
                           => LET p == <<get_analysis_dir(current_analysis_id),
                                         requests_history'[i].id>>
                              IN  p \in DOMAIN disk' /\ disk'[p] = requests_history'[i]]_vars

\* A file written three times: with the request, and with a response twice.
C29_Witness ==
    \E p \in DOMAIN disk :
        /\ disk[p].response # <<>>
        /\ response_sets[p[2]] = 2
        /\ Cardinality({q \in DOMAIN disk : q[1] = p[1]}) = 1

\* C30: once the exchange of a proxied request is over, whichever way it
\* ended (stream complete, upstream failure mid-stream, caller gone, or the
\* upstream attempt failed before headers), the HTTP client created for its
\* upstream request has been closed.
C30_UpstreamClientReleased ==
    \A t \in Requests :
        http[t].pc = "done" => http[t].client # "open"

\* C31: a request to favicon.ico is answered 200 in one step that leaves the
\* history and the files alone, with or without an active session; it is
\* never forwarded and never gets a record.
C31_FaviconStep ==
    \A t \in Requests :
        (http[t].pc = "start" /\ http'[t] # http[t] /\ http'[t].path = "favicon.ico") =>
            /\ http'[t].pc = "done"
            /\ http'[t].reply = 200
            /\ http'[t].target_url = <<>>
            /\ http'[t].request_data = NoRecord
            /\ http'[t].client = "none"
            /\ UNCHANGED <<requests_history, disk, dirs, metadata_file>>
C31_FaviconNeverRecorded ==
    /\ \A t \in Requests :
           http[t].path = "favicon.ico" =>
               http[t].pc = "done" /\ http[t].reply = 200 /\ ~Forwarded(t)
    /\ \A i \in 1..Len(requests_history) : requests_history[i].path # "favicon.ico"
    /\ \A f \in DOMAIN disk : disk[f].path # "favicon.ico"
C31_FaviconAnswered == [][C31_FaviconStep]_vars /\ []C31_FaviconNeverRecorded
C31_Witness ==
    \E t \in Requests :
        /\ http[t].path = "favicon.ico" /\ http[t].pc = "done" /\ http[t].reply = 200
        /\ current_analysis_id # NoId /\ ~Falsy(redirect_endpoint)

\* C37: a response is assigned to a record, and the record saved with it,
\* only by the exchange that appended that record: the step that assigns
\* record r's response is the end of the stream of request r itself.
C37_ResponseOnlyToOwnRecord ==
    [][\A r \in Requests :
          response_sets'[r] > response_sets[r] =>
              http'[r].stream_end # http[r].stream_end]_vars

\* C39: an active session id names a session of the registry whose endpoint
\* is the redirect endpoint, and a redirect endpoint is set only while a
\* session is active.
C39_ActiveNamesRegistered ==
    current_analysis_id # NoId =>
        /\ current_analysis_id \in DOMAIN analyses
        /\ redirect_endpoint = analyses[current_analysis_id].endpoint
C39_EndpointOnlyWithSession ==
    ~Falsy(redirect_endpoint) => current_analysis_id # NoId
C39_PointerAndEndpointAgree ==
    C39_ActiveNamesRegistered /\ C39_EndpointOnlyWithSession

\* C38: whenever no request and no bridge is in flight and an analysis is
\* current, the in-memory history is what load_history produces from the
\* directory of that analysis: the same records, ascending by timestamp.
C38_MemoryEqualsReload ==
    (Quiet /\ ws.pc \in {"start", "done"} /\ current_analysis_id # NoId) =>
        requests_history \in LoadedHistories(get_analysis_dir(current_analysis_id))

\* The query part of a URL: "?" and the query when there is one.
QueryPart(query) == IF query # <<>> THEN <<"?">> \o query ELSE <<>>

C33_ChatCompletionsGoToResponses ==
    (url.target_url # <<>> /\ url.path = <<"v", "1", "/", "c", "h", "a", "t", "/", "c", "o", "m", "p", "l", "e", "t", "i", "o", "n", "s">>) =>
        url.target_url[1] = rstrip(url.endpoint) \o <<"/">> \o <<"v", "1", "/", "r", "e", "s", "p", "o", "n", "s", "e", "s">> \o QueryPart(url.query)

\* C34: the upstream WebSocket URL is the endpoint's scheme swapped (http to
\* ws, https to wss), its host, its base path with the inbound path, and the
\* query of the inbound connection.
C34_WsUrlCarriesInboundQuery ==
    url.ws_url # <<>> =>
        LET parsed == urlparse(url.endpoint)
            scheme == IF parsed.scheme = <<"h", "t", "t", "p", "s">> THEN <<"w", "s", "s">> ELSE <<"w", "s">>
        IN  url.ws_url[1] =
                scheme \o <<":", "/", "/">> \o parsed.netloc \o rstrip(parsed.path)
                \o (IF url.path # <<>> THEN <<"/">> \o url.path ELSE <<>>)
                \o QueryPart(url.query)

\* The coroutines that have started and not returned.
Active(t) == tasks[t].status \notin {"new", "done"}

\* C35: no coroutine is inside a critical section of state_lock while it
\* reads or writes a file, sends on or closes a socket, or waits for the
\* upstream.
C35_NoIoUnderLock ==
    \A t \in LockTasks :
        (Active(t) /\ CurrentStep(t).op \in {"file", "send", "recv"}) =>
            state_lock.owner # t

\* C40: no coroutine asks for state_lock while it holds it, none waits for
\* data from a network peer inside a critical section, and, the loop being
\* fair, every coroutine that waits for the lock comes to hold it.
C40_NoReentry ==
    \A t \in LockTasks :
        (Active(t) /\ CurrentStep(t).op = "acquire") => state_lock.owner # t
C40_NoPeerWaitInside ==
    \A t \in LockTasks :
        (Active(t) /\ CurrentStep(t).op = "recv") => state_lock.owner # t
C40_WaitersAcquire ==
    /\ [](C40_NoReentry /\ C40_NoPeerWaitInside)
    /\ \A t \in LockTasks : (tasks[t].status = "waiting") ~> (state_lock.owner = t)
C40_Witness ==
    \E t, u, v \in LockTasks :
        /\ tasks[t].status = "waiting" /\ tasks[u].status = "waiting" /\ t # u
        /\ state_lock.owner = v /\ tasks[v].status = "io"
        /\ state_lock.waiters = <<t, u>>
        /\ tasks[t].kind = "create" /\ tasks[u].kind = "catch_all"

\* The create and switch actions that have run to their end, and whether
\* every coroutine that was started has returned.
C36_Configured ==
    {t \in LockTasks : tasks[t].status = "done"
                       /\ tasks[t].kind \in {"create", "switch", "switch_unknown"}}
C36_Completed ==
    /\ \A t \in LockTasks : tasks[t].status \in {"new", "done"}
    /\ C36_Configured # {}

\* create and switch run alone, as functions of the registry, the active
\* id, the endpoint and the registry file.
C36_Start ==
    LET registry == <<[id |-> 1, title |-> "T", endpoint |-> EndpointNames[1],
                       redact_sensitive |-> FALSE, created_at |-> 1]>>
    IN  [analyses |-> registry, current_analysis_id |-> NoId, redirect_endpoint |-> None,
         metadata_file |-> <<[analyses |-> registry, current_analysis_id |-> NoId]>>]
C36_Create(s) ==
    LET id == Cardinality(DOMAIN s.analyses) + 1
        analysis == [id |-> id, title |-> "T", endpoint |-> EndpointNames[id],
                     redact_sensitive |-> FALSE, created_at |-> clock]
        registry == [i \in DOMAIN s.analyses \cup {id} |->
                        IF i = id THEN analysis ELSE s.analyses[i]]
    IN  [analyses |-> registry, current_analysis_id |-> id,
         redirect_endpoint |-> analysis.endpoint,
         metadata_file |-> <<[analyses |-> registry,
                              current_analysis_id |-> s.current_analysis_id]>>]
C36_Switch(s, id) ==
    IF id \in DOMAIN s.analyses
    THEN [s EXCEPT !.current_analysis_id = id,
                   !.redirect_endpoint = s.analyses[id].endpoint]
    ELSE s
RECURSIVE C36_Serial(_, _)
C36_Serial(s, order) ==
    IF order = <<>> THEN s
    ELSE LET t == Head(order)
             after == IF tasks[t].kind = "create"
                      THEN C36_Create(s)
                      ELSE C36_Switch(s, tasks[t].analysis_id)
         IN  C36_Serial(after, Tail(order))
C36_Orders ==
    {order \in [1..Cardinality(C36_Configured) -> C36_Configured] :
        \A i, j \in DOMAIN order : i # j => order[i] # order[j]}

\* C36: once concurrent create and switch actions have completed, the active
\* id and the endpoint name one analysis, the history is the log of that
\* analysis, the registry file lists every analysis, and the registry, the
\* active id, the endpoint and the registry file are those a serial order of
\* the same actions produces.
C36_CreateAndSwitchSerialise ==
    C36_Completed =>
        /\ current_analysis_id # NoId =>
               /\ current_analysis_id \in DOMAIN analyses
               /\ redirect_endpoint = analyses[current_analysis_id].endpoint
               /\ requests_history \in LoadedHistories(get_analysis_dir(current_analysis_id))
        /\ metadata_file # <<>> /\ metadata_file[1].analyses = analyses
        /\ \E order \in C36_Orders :
               C36_Serial(C36_Start, order) =
                   [analyses |-> analyses, current_analysis_id |-> current_analysis_id,
                    redirect_endpoint |-> redirect_endpoint,
                    metadata_file |-> metadata_file]

====
